---- MODULE Spec2Model ----
(***************************************************************************)
(* Model of dxr/build.py: the HTML decoration pipeline (build_lines and    *)
(* the generators it chains) and the file indexer (index_files).           *)
(*                                                                         *)
(* Offsets are 0-based as in Python; TLA+ sequences are 1-based, so the    *)
(* element at Python index i is s[i + 1].                                  *)
(***************************************************************************)
EXTENDS Integers, Sequences, FiniteSets, TLC

\* ------------------------------------------------------------------------
\* Bounds of the model
\* ------------------------------------------------------------------------
MaxLen == 3
MaxIntervals == 2
MaxAnyLen == 2
MaxAnyIntervals == 2
MaxNodes == 3
MaxGlobs == 1
MaxFileId == 7
MaxSliceSize == 4
MaxTrees == 2
MaxIndexers == 1
MaxTasks == 2
MaxJobs == 2
MaxRangeStart == 3
MaxRangeLen == 3
MaxMenuLen == 4
MaxYields == 8
MaxFirstId == 2

\* Characters a source text is made of: an ordinary character, the two line
\* terminators str.splitlines knows, and a character cgi.escape rewrites.
\* All are ASCII, so the utf-8 decoder of decoded_slice maps each byte to
\* the character of the same value.
Chars == {"a", "\n", "\r", "<"}
AnyChars == {"a", "\n"}

\* File and folder names of a source tree, and the globs of a configuration.
Names == {<<"a">>, <<"b">>, <<"a", "b">>}
NameGlobs == {<<"a">>, <<"*", "b">>, <<"?">>}
PathGlobs == {<<"/", "a", "/">>, <<"/", "a", "/", "*">>, <<"*", "/", "b">>}

VARIABLES
    text,        \* build_lines: the file's text, a sequence of characters
    intervals,   \* the (start, end, data) triples of the htmlifiers, in the
                 \* order tag_boundaries meets them, each with its class
    pc,          \* position inside build_lines / htmlify
    tags,        \* build_lines: the list `tags`
    balanced,    \* what balanced_tags(tags) yields to html_lines
    lines,       \* what html_lines yields to the template
    err,         \* the exception that ended the pipeline, or "none"
    fs,          \* the source tree under tree.source_folder
    ignore_patterns, \* tree.ignore_patterns
    ignore_paths,    \* tree.ignore_paths
    walk_stack,  \* os.walk: the folders still to be yielded, next first
    root,        \* index_files: the folder os.walk yielded last
    files,       \* index_files: the files of root not yet looked at
    folders,     \* index_files: the list `folders` of root
    indexed_files,   \* index_files: the list `indexed_files` of root
    files_table, \* rows of the files table, in insertion order
    trg_index,   \* rows of the trigram store, in insertion order
    listings,    \* the folder listings build_folder was asked to write
    non_text,    \* the paths dxr.mime.is_text turned down
    ipc,         \* position inside index_files
    sl_a,        \* _sliced_range_bounds: the argument a
    sl_b,        \* _sliced_range_bounds: the argument b
    slice_size,  \* _sliced_range_bounds: the argument slice_size
    this_min,    \* _sliced_range_bounds: the local this_min
    this_max,    \* _sliced_range_bounds: the local this_max, -1 while unbound
    yielded,     \* the (this_min, this_max) pairs the generator has yielded
    spc,         \* position inside _sliced_range_bounds
    n_trees,     \* build_instance: len(trees)
    tree,        \* build_instance: the tree being built, counted from 1
    bpc,         \* build_instance: the call the master is in
    conn,        \* build_instance: the master's connection to the index
    dirty,       \* whether conn holds writes it has not committed
    indexers,    \* build_tree: len(indexers)
    pre_done,    \* build_tree: the indexers whose pre_process has run
    post_done,   \* build_tree: the indexers whose post_process has run
    cmd_r,       \* build_tree: r, the exit code of the build command
    files_rows,  \* the rows index_files committed to the files table
    nb_jobs,     \* tree.config.nb_jobs, the size of the pool
    pool,        \* run_html_workers: the state of the ProcessPoolExecutor
    futures,     \* run_html_workers: the list `futures`
    seen,        \* the futures as_completed has handed to the master
    exc,         \* the future whose exception leaves run_html_workers, or 0
    exit_status, \* the exit status of the process, -1 while it runs
    log,         \* the calls the master has made, in order
    task_start,  \* _build_html_for_file_ids: the argument start
    task_end,    \* _build_html_for_file_ids: the argument end
    wpc,         \* position inside _build_html_for_file_ids
    w_id,        \* the local id, -1 while unbound
    w_path,      \* the local path
    cursor,      \* the rows the SELECT has still to hand out
    decorated,   \* the ids htmlify has been called for, in order
    raised_at,   \* the statement that raised, or "none"
    w_failed,    \* the id of the file whose htmlify raised, or 0
    w_outcome,   \* how the task ended, "none" while it runs
    w_record,    \* the (id, path) of the failure record returned
    menu,        \* the payload of the Refs: a menu, a list of dicts
    rendered,    \* the lines html_lines yields, character by character
    found,       \* test_menus.menu_on: what it decoded from the page
    plugin_links,    \* build_sections: what each htmlifier's links() yields
    links,       \* build_sections: the local links
    sections,    \* build_sections: the list it returns
    secpc,       \* position inside build_sections
    run,         \* which run of index_files over the tree this is, 1 or 2
    listed,      \* the order os.listdir gave for each folder in run 1
    first_table  \* the files table the first run committed

linesVars == <<text, intervals, pc, tags, balanced, lines, err>>
indexVars == <<fs, ignore_patterns, ignore_paths, walk_stack, root, files,
               folders, indexed_files, files_table, trg_index, listings,
               non_text, ipc>>
\* What the decoration pipeline, and the indexer, leave alone.
sliceVars == <<sl_a, sl_b, slice_size, this_min, this_max, yielded, spc>>
\* What the decoration pipeline, the indexer and the range generator leave
\* alone.
buildVars == <<n_trees, tree, bpc, conn, dirty, indexers, pre_done, post_done, cmd_r,
               files_rows, nb_jobs, pool, futures, seen, exc, exit_status, log>>
workerVars == <<task_start, task_end, wpc, w_id, w_path, cursor, decorated, raised_at,
                w_failed, w_outcome, w_record>>
menuVars == <<menu, rendered, found>>
sectionVars == <<plugin_links, links, sections, secpc>>
rerunVars == <<run, listed, first_table>>
nonLinesVars == <<indexVars, sliceVars, buildVars, workerVars, menuVars, sectionVars, rerunVars>>
nonIndexVars == <<linesVars, sliceVars, buildVars, workerVars, menuVars, sectionVars, rerunVars>>
nonSliceVars == <<linesVars, indexVars, buildVars, workerVars, menuVars, sectionVars, rerunVars>>
nonBuildVars == <<linesVars, indexVars, sliceVars, workerVars, menuVars, sectionVars, rerunVars>>
nonWorkerVars == <<linesVars, indexVars, sliceVars, buildVars, menuVars, sectionVars, rerunVars>>
nonMenuVars == <<indexVars, sliceVars, buildVars, workerVars, sectionVars, rerunVars>>
nonSectionVars == <<linesVars, indexVars, sliceVars, buildVars, workerVars, menuVars, rerunVars>>
vars == <<linesVars, indexVars, sliceVars, buildVars, workerVars, menuVars, sectionVars,
          rerunVars>>

SeqsUpTo(S, n) == UNION {[1..k -> S] : k \in 0..n}

Min(a, b) == IF a < b THEN a ELSE b

\* ------------------------------------------------------------------------
\* Payloads and tag boundaries
\* ------------------------------------------------------------------------

\* class Line: the single marker object line_boundaries creates.
Line == [kind |-> "Line", id |-> 0]

\* class Region / class Ref: the object tag_boundaries creates for the i-th
\* interval.  `id` stands for the object's identity (Python `is`).
TagWriter(cls, i) == [kind |-> cls, id |-> i]

\* Variant: Regions sort outside Refs.
sort_order_region_outside(payload) ==
    CASE payload.kind = "Line" -> 0
      [] payload.kind = "Ref" -> 2
      [] payload.kind = "Region" -> 1

sort_order(payload) ==
    CASE payload.kind = "Line" -> 0
      [] payload.kind = "Ref" -> 1
      [] payload.kind = "Region" -> 2

Tag(point, is_start, payload) ==
    [point |-> point, is_start |-> is_start, payload |-> payload]

\* ------------------------------------------------------------------------
\* tag_boundaries
\* ------------------------------------------------------------------------
RECURSIVE tag_boundaries_from(_, _)
tag_boundaries_from(ivs, i) ==
    IF i > Len(ivs) THEN << >>
    ELSE LET tag == TagWriter(ivs[i].cls, i)
         IN  <<Tag(ivs[i].start, TRUE, tag), Tag(ivs[i].end, FALSE, tag)>>
                 \o tag_boundaries_from(ivs, i + 1)

\* The offsets of the model are integers, never None, so of the three
\* assertions only `assert end > 0` can fail.  list(tag_boundaries(...))
\* raises before build_lines holds any list.
tag_boundaries(ivs) ==
    IF \E i \in 1..Len(ivs) : ~(ivs[i].end > 0)
    THEN [out |-> << >>, err |-> "AssertionError"]
    ELSE [out |-> tag_boundaries_from(ivs, 1), err |-> "none"]

\* ------------------------------------------------------------------------
\* line_boundaries
\* ------------------------------------------------------------------------
IsBreak(c) == c \in {"\n", "\r"}

\* str.splitlines(True): split after "\n", "\r" and "\r\n", keeping the
\* terminators; no empty last line.
RECURSIVE splitlines(_)
splitlines(s) ==
    IF s = << >> THEN << >>
    ELSE LET breaks == {i \in 1..Len(s) : IsBreak(s[i])}
         IN  IF breaks = {} THEN <<s>>
             ELSE LET i == CHOOSE b \in breaks : \A c \in breaks : b <= c
                      e == IF s[i] = "\r" /\ i < Len(s) /\ s[i + 1] = "\n"
                           THEN i + 1 ELSE i
                  IN  <<SubSeq(s, 1, e)>> \o splitlines(SubSeq(s, e + 1, Len(s)))

RECURSIVE line_boundaries_from(_, _)
line_boundaries_from(ls, up_to) ==
    IF ls = << >> THEN << >>
    ELSE <<Tag(up_to, TRUE, Line), Tag(up_to + Len(Head(ls)), FALSE, Line)>>
             \o line_boundaries_from(Tail(ls), up_to + Len(Head(ls)))

line_boundaries(t) == line_boundaries_from(splitlines(t), 0)

\* ------------------------------------------------------------------------
\* nesting_order and list.sort
\* ------------------------------------------------------------------------
\* Variant: closes are keyed like opens, so coincident closes run Line, Ref,
\* Region.
nesting_order_closes_like_opens(tag) ==
    <<tag.point, IF tag.is_start THEN 1 ELSE 0, sort_order(tag.payload)>>

nesting_order(tag) ==
    <<tag.point,
      IF tag.is_start THEN 1 ELSE 0,
      IF tag.is_start THEN sort_order(tag.payload) ELSE 0 - sort_order(tag.payload)>>

KeyLess(a, b) ==
    \/ a[1] < b[1]
    \/ a[1] = b[1] /\ a[2] < b[2]
    \/ a[1] = b[1] /\ a[2] = b[2] /\ a[3] < b[3]

\* list.sort(key=...) is stable: an element goes after every element whose
\* key is not greater than its own.
RECURSIVE sort_by_nesting_order(_)
sort_by_nesting_order(s) ==
    IF s = << >> THEN << >>
    ELSE LET t == s[Len(s)]
             front == sort_by_nesting_order(SubSeq(s, 1, Len(s) - 1))
             n == Cardinality({i \in 1..Len(front) :
                      ~KeyLess(nesting_order(t), nesting_order(front[i]))})
         IN  SubSeq(front, 1, n) \o <<t>> \o SubSeq(front, n + 1, Len(front))

\* ------------------------------------------------------------------------
\* non_overlapping_refs and remove_overlapping_refs
\* ------------------------------------------------------------------------
None == [kind |-> "None", id |-> 0]

Front(s) == SubSeq(s, 1, Len(s) - 1)
Last(s) == s[Len(s)]

\* Variant: no Ref is ever held back.
non_overlapping_refs_keep_all(st, tag) ==
    [blacklist |-> st.blacklist, open_ref |-> st.open_ref, keep |-> TRUE, err |-> "none"]

\* Variant: the close of a blacklisted Ref is let through.
non_overlapping_refs_keep_evil_close(st, tag) ==
    IF tag.payload.kind = "Ref"
    THEN IF tag.payload \in st.blacklist
         THEN [blacklist |-> st.blacklist \ {tag.payload}, open_ref |-> st.open_ref,
               keep |-> TRUE, err |-> "none"]
         ELSE IF st.open_ref = None
         THEN [blacklist |-> st.blacklist, open_ref |-> tag.payload,
               keep |-> TRUE, err |-> IF tag.is_start THEN "none" ELSE "AssertionError"]
         ELSE IF st.open_ref = tag.payload
         THEN [blacklist |-> st.blacklist, open_ref |-> None,
               keep |-> TRUE, err |-> "none"]
         ELSE [blacklist |-> st.blacklist \cup {tag.payload}, open_ref |-> st.open_ref,
               keep |-> FALSE, err |-> "none"]
    ELSE [blacklist |-> st.blacklist, open_ref |-> st.open_ref,
          keep |-> TRUE, err |-> "none"]

\* One iteration of the generator's loop: st holds its locals blacklist and
\* open_ref; the result adds the value yielded (keep) and whether the
\* `assert is_start` failed.
non_overlapping_refs(st, tag) ==
    IF tag.payload.kind = "Ref"
    THEN IF tag.payload \in st.blacklist
         THEN [blacklist |-> st.blacklist \ {tag.payload}, open_ref |-> st.open_ref,
               keep |-> FALSE, err |-> "none"]
         ELSE IF st.open_ref = None
         THEN IF tag.is_start
              THEN [blacklist |-> st.blacklist, open_ref |-> tag.payload,
                    keep |-> TRUE, err |-> "none"]
              ELSE [blacklist |-> st.blacklist, open_ref |-> st.open_ref,
                    keep |-> FALSE, err |-> "AssertionError"]
         ELSE IF st.open_ref = tag.payload
         THEN [blacklist |-> st.blacklist, open_ref |-> None,
               keep |-> TRUE, err |-> "none"]
         ELSE [blacklist |-> st.blacklist \cup {tag.payload}, open_ref |-> st.open_ref,
               keep |-> FALSE, err |-> "none"]
    ELSE [blacklist |-> st.blacklist, open_ref |-> st.open_ref,
          keep |-> TRUE, err |-> "none"]

\* The loop of remove_overlapping_refs over the live list ts: compress and
\* non_overlapping_refs both read element j of the list as it is now, the
\* body overwrites element i.  i counts the elements written so far (the
\* Python i is one less, and is unbound while nothing has been written).
RECURSIVE remove_overlapping_refs_loop(_, _, _, _)
remove_overlapping_refs_loop(ts, j, i, st) ==
    IF j > Len(ts)
    THEN IF i = 0
         THEN [out |-> ts, err |-> "UnboundLocalError"]
         ELSE [out |-> SubSeq(ts, 1, i), err |-> "none"]
    ELSE LET tag == ts[j]
             r == non_overlapping_refs(st, ts[j])
             st2 == [blacklist |-> r.blacklist, open_ref |-> r.open_ref]
         IN  IF r.err # "none" THEN [out |-> ts, err |-> r.err]
             ELSE IF r.keep
             THEN remove_overlapping_refs_loop(
                      [ts EXCEPT ![i + 1] = tag], j + 1, i + 1, st2)
             ELSE remove_overlapping_refs_loop(ts, j + 1, i, st2)

\* Variant: the tail of the list is not deleted after the compaction.
remove_overlapping_refs_untruncated(ts) ==
    LET r == remove_overlapping_refs_loop(ts, 1, 0, [blacklist |-> {}, open_ref |-> None])
    IN  [out |-> r.out \o SubSeq(ts, Len(r.out) + 1, Len(ts)), err |-> r.err]

remove_overlapping_refs(ts) ==
    remove_overlapping_refs_loop(ts, 1, 0, [blacklist |-> {}, open_ref |-> None])

\* ------------------------------------------------------------------------
\* balanced_tags_with_empties
\* ------------------------------------------------------------------------

\* Variant: the tag is closed where it stands in the stack, and what was
\* opened after it is left open.
close_intermediate_skipped(opens, closes, out, point, payload) ==
    IF \E i \in 1..Len(opens) : opens[i] = payload
    THEN [opens |-> SelectSeq(opens, LAMBDA x : x # payload) \o <<payload>>,
          closes |-> closes, out |-> out, err |-> "none"]
    ELSE [opens |-> << >>, closes |-> closes, out |-> out, err |-> "IndexError"]

\* while opens[-1] is not payload: ...   (IndexError once opens is empty)
RECURSIVE close_intermediate(_, _, _, _, _)
close_intermediate(opens, closes, out, point, payload) ==
    IF opens = << >>
    THEN [opens |-> opens, closes |-> closes, out |-> out, err |-> "IndexError"]
    ELSE IF Last(opens) = payload
    THEN [opens |-> opens, closes |-> closes, out |-> out, err |-> "none"]
    ELSE close_intermediate(Front(opens), closes \o <<Last(opens)>>,
                            out \o <<Tag(point, FALSE, Last(opens))>>, point, payload)

\* Variant: what was closed on the way is not opened again.
reopen_closed_never(opens, closes, out, point) ==
    [opens |-> opens, closes |-> closes, out |-> out, err |-> "none"]

\* while closes: ...
RECURSIVE reopen_closed(_, _, _, _)
reopen_closed(opens, closes, out, point) ==
    IF closes = << >>
    THEN [opens |-> opens, closes |-> closes, out |-> out, err |-> "none"]
    ELSE reopen_closed(opens \o <<Last(closes)>>, Front(closes),
                       out \o <<Tag(point, TRUE, Last(closes))>>, point)

RECURSIVE balanced_tags_with_empties_loop(_, _, _, _)
balanced_tags_with_empties_loop(ts, j, opens, out) ==
    IF j > Len(ts)
    THEN [opens |-> opens, closes |-> << >>, out |-> out, err |-> "none"]
    ELSE LET tag == ts[j] IN
         IF tag.is_start
         THEN balanced_tags_with_empties_loop(
                  ts, j + 1, opens \o <<tag.payload>>, out \o <<tag>>)
         ELSE LET c == close_intermediate(opens, << >>, out, tag.point, tag.payload)
              IN  IF c.err # "none" THEN c
                  ELSE LET r == reopen_closed(Front(c.opens), c.closes,
                                    c.out \o <<Tag(tag.point, FALSE, tag.payload)>>,
                                    tag.point)
                       IN  balanced_tags_with_empties_loop(ts, j + 1, r.opens, r.out)

balanced_tags_with_empties(ts) == balanced_tags_with_empties_loop(ts, 1, << >>, << >>)

\* ------------------------------------------------------------------------
\* without_empty_tags and balanced_tags
\* ------------------------------------------------------------------------
\* Variant: nothing counts as zero-width, so no pair is ever dropped.
is_zero_width_never(top, tag) == FALSE

\* Variant: the offsets of the two boundaries are not compared.
is_zero_width_any_point(top, tag) == top.payload = tag.payload

\* if top_payload is payload and top_point == point:
is_zero_width(top, tag) == top.payload = tag.payload /\ top.point = tag.point

RECURSIVE without_empty_tags_loop(_, _, _, _, _)
without_empty_tags_loop(ts, j, buffer, depth, out) ==
    IF j > Len(ts)
    THEN [buffer |-> buffer, depth |-> depth, out |-> out, err |-> "none"]
    ELSE LET tag == ts[j] IN
         IF tag.is_start
         THEN without_empty_tags_loop(ts, j + 1, buffer \o <<tag>>, depth + 1, out)
         ELSE IF buffer = << >>
         THEN [buffer |-> buffer, depth |-> depth, out |-> out, err |-> "IndexError"]
         ELSE LET top == Last(buffer)
                  buffer2 == IF is_zero_width(top, tag)
                             THEN Front(buffer)
                             ELSE buffer \o <<tag>>
              IN  IF depth - 1 = 0
                  THEN without_empty_tags_loop(ts, j + 1, << >>, 0, out \o buffer2)
                  ELSE without_empty_tags_loop(ts, j + 1, buffer2, depth - 1, out)

without_empty_tags(ts) == without_empty_tags_loop(ts, 1, << >>, 0, << >>)

\* Variant: the balancer's stream is handed on unfiltered.
balanced_tags_with_empties_only(ts) ==
    [out |-> balanced_tags_with_empties(ts).out, err |-> balanced_tags_with_empties(ts).err]

\* The generators are chained lazily: without_empty_tags handles everything
\* the balancer yielded before the balancer raised, so its own exception,
\* if any, comes first.
balanced_tags(ts) ==
    LET e == balanced_tags_with_empties(ts)
        w == without_empty_tags(e.out)
    IN  [out |-> w.out, err |-> IF w.err # "none" THEN w.err ELSE e.err]

\* ------------------------------------------------------------------------
\* Region, Ref and html_lines
\* ------------------------------------------------------------------------

\* The HTML of a line is a sequence of items: one per character of text,
\* and one per inserted tag.  The opener of a Region or Ref is determined by
\* its class and its payload, the closer by its class alone
\* (u'</span>', u'</a>').
Chr(c) == [k |-> "chr", c |-> c, p |-> None]
opener(payload) == [k |-> "open", c |-> "", p |-> payload]
closer(payload) == [k |-> "close", c |-> "", p |-> [kind |-> payload.kind, id |-> 0]]

\* decoded_slice(start, end): text[start:end] for offsets >= 0.
decoded_slice(t, start, end) ==
    IF start >= Min(end, Len(t)) THEN << >>
    ELSE SubSeq(t, start + 1, Min(end, Len(t)))

\* unicode.strip(u'\r\n'): drop the characters of the set at both ends.
RECURSIVE lstrip(_)
lstrip(s) == IF s # << >> /\ IsBreak(Head(s)) THEN lstrip(Tail(s)) ELSE s
RECURSIVE rstrip(_)
rstrip(s) == IF s # << >> /\ IsBreak(Last(s)) THEN rstrip(Front(s)) ELSE s
strip(s) == rstrip(lstrip(s))

\* cgi.escape(s): & then < then > are replaced by their entities.
escape_char(c) ==
    CASE c = "&" -> <<"&", "a", "m", "p", ";">>
      [] c = "<" -> <<"&", "l", "t", ";">>
      [] c = ">" -> <<"&", "g", "t", ";">>
      [] OTHER -> <<c>>
RECURSIVE escape(_)
escape(s) == IF s = << >> THEN << >> ELSE escape_char(Head(s)) \o escape(Tail(s))

RECURSIVE chars_to_items(_)
chars_to_items(s) ==
    IF s = << >> THEN << >> ELSE <<Chr(Head(s))>> \o chars_to_items(Tail(s))

\* ''.join(segments)
RECURSIVE join(_)
join(segments) == IF segments = << >> THEN << >> ELSE Head(segments) \o join(Tail(segments))

NoLineEnd == 0 - 1   \* line_ends_at = None

RECURSIVE html_lines_loop(_, _, _, _, _, _, _, _)
html_lines_loop(ts, upstream_err, t, j, up_to, segments, line_ends_at, out) ==
    IF j > Len(ts)
    THEN IF upstream_err = "none" /\ segments # << >>
         THEN out \o <<join(segments)>>
         ELSE out
    ELSE LET tag == ts[j]
             seg1 == segments \o
                 <<chars_to_items(escape(strip(decoded_slice(t, up_to, tag.point))))>>
             flush == line_ends_at # NoLineEnd
                          /\ (tag.is_start \/ tag.point > line_ends_at)
             out2 == IF flush /\ seg1 # << >> THEN out \o <<join(seg1)>> ELSE out
             seg2 == IF flush /\ seg1 # << >> THEN << >> ELSE seg1
             lea2 == IF flush THEN NoLineEnd ELSE line_ends_at
         IN  IF tag.payload.kind = "Line"
             THEN html_lines_loop(ts, upstream_err, t, j + 1, tag.point, seg2,
                      IF tag.is_start THEN lea2 ELSE tag.point, out2)
             ELSE html_lines_loop(ts, upstream_err, t, j + 1, tag.point,
                      seg2 \o <<IF tag.is_start THEN <<opener(tag.payload)>>
                                                ELSE <<closer(tag.payload)>> >>,
                      lea2, out2)

\* The lines html_lines yields from the stream ts; when the stream ends in
\* an exception the generator is abandoned before its last yield.
html_lines(ts, upstream_err, t) ==
    html_lines_loop(ts, upstream_err, t, 1, 0, << >>, NoLineEnd, << >>)

\* ------------------------------------------------------------------------
\* build_lines, statement by statement
\* ------------------------------------------------------------------------
Classes == {"Region", "Ref"}

\* Interval lists that keep the plugin contract 0 <= start < end <= len.
ValidIntervals(n) ==
    {iv \in [cls : Classes, start : 0..n, end : 0..n] : iv.start < iv.end}

\* Interval lists of plugins that may break the contract.
AnyIntervals(n) == [cls : Classes, start : 0..(n + 1), end : 0..(n + 1)]

SlicesIdle ==
    /\ sl_a = 0
    /\ sl_b = 0
    /\ slice_size = 0
    /\ this_min = 0
    /\ this_max = 0
    /\ yielded = << >>
    /\ spc = "idle"

Unsearched == [state |-> "unsearched", val |-> << >>]

MenuIdle ==
    /\ menu = << >>
    /\ rendered = << >>
    /\ found = Unsearched

SectionsIdle ==
    /\ plugin_links = << >>
    /\ links = << >>
    /\ sections = << >>
    /\ secpc = "idle"

RerunIdle ==
    /\ run = 0
    /\ listed = {}
    /\ first_table = << >>

WorkerIdle ==
    /\ task_start = 0
    /\ task_end = 0
    /\ wpc = "idle"
    /\ w_id = 0
    /\ w_path = 0
    /\ cursor = << >>
    /\ decorated = << >>
    /\ raised_at = "none"
    /\ w_failed = 0
    /\ w_outcome = "none"
    /\ w_record = 0

BuildIdle ==
    /\ n_trees = 0
    /\ tree = 0
    /\ bpc = "idle"
    /\ conn = "none"
    /\ dirty = FALSE
    /\ indexers = 0
    /\ pre_done = 0
    /\ post_done = 0
    /\ cmd_r = 0
    /\ files_rows = 0
    /\ nb_jobs = 0
    /\ pool = "none"
    /\ futures = << >>
    /\ seen = {}
    /\ exc = 0
    /\ exit_status = 0
    /\ log = << >>

IndexIdle ==
    /\ fs = {}
    /\ ignore_patterns = {}
    /\ ignore_paths = {}
    /\ walk_stack = << >>
    /\ root = << >>
    /\ files = << >>
    /\ folders = << >>
    /\ indexed_files = << >>
    /\ files_table = << >>
    /\ trg_index = << >>
    /\ listings = << >>
    /\ non_text = {}
    /\ ipc = "idle"

LinesIdle ==
    /\ text = << >>
    /\ intervals = << >>
    /\ pc = "idle"
    /\ tags = << >>
    /\ balanced = << >>
    /\ lines = << >>
    /\ err = "none"

NonLinesIdle ==
    IndexIdle /\ SlicesIdle /\ BuildIdle /\ WorkerIdle /\ MenuIdle /\ SectionsIdle /\ RerunIdle
NonIndexIdle ==
    LinesIdle /\ SlicesIdle /\ BuildIdle /\ WorkerIdle /\ MenuIdle /\ SectionsIdle /\ RerunIdle
NonSlicesIdle ==
    LinesIdle /\ IndexIdle /\ BuildIdle /\ WorkerIdle /\ MenuIdle /\ SectionsIdle /\ RerunIdle
NonBuildIdle ==
    LinesIdle /\ IndexIdle /\ SlicesIdle /\ WorkerIdle /\ MenuIdle /\ SectionsIdle /\ RerunIdle
NonWorkerIdle ==
    LinesIdle /\ IndexIdle /\ SlicesIdle /\ BuildIdle /\ MenuIdle /\ SectionsIdle /\ RerunIdle
NonMenuIdle == IndexIdle /\ SlicesIdle /\ BuildIdle /\ WorkerIdle /\ SectionsIdle /\ RerunIdle
NonSectionsIdle ==
    LinesIdle /\ IndexIdle /\ SlicesIdle /\ BuildIdle /\ WorkerIdle /\ MenuIdle /\ RerunIdle

LinesStart ==
    /\ pc = "start"
    /\ tags = << >>
    /\ balanced = << >>
    /\ lines = << >>
    /\ err = "none"

InitLines ==
    /\ text \in SeqsUpTo(Chars, MaxLen)
    /\ intervals \in SeqsUpTo(ValidIntervals(Len(text)), MaxIntervals)
    /\ LinesStart
    /\ NonLinesIdle

\* Texts over an ordinary character and one line terminator: every way
\* line boundaries can fall in a text, which is all the tag stream sees of
\* the text.
InitStream ==
    /\ text \in SeqsUpTo(AnyChars, MaxLen)
    /\ intervals \in SeqsUpTo(ValidIntervals(Len(text)), MaxIntervals)
    /\ LinesStart
    /\ NonLinesIdle

\* tags = list(tag_boundaries(htmlifiers))
TagBoundaries ==
    /\ pc = "start"
    /\ LET r == tag_boundaries(intervals)
       IN  /\ tags' = r.out
           /\ err' = r.err
           /\ pc' = IF r.err = "none" THEN "tagged" ELSE "failed"
    /\ UNCHANGED <<text, intervals, balanced, lines>>
    /\ UNCHANGED nonLinesVars

\* tags.extend(line_boundaries(text))
LineBoundaries ==
    /\ pc = "tagged"
    /\ tags' = tags \o line_boundaries(text)
    /\ pc' = "extended"
    /\ UNCHANGED <<text, intervals, balanced, lines, err>>
    /\ UNCHANGED nonLinesVars

\* tags.sort(key=nesting_order)
SortTags ==
    /\ pc = "extended"
    /\ tags' = sort_by_nesting_order(tags)
    /\ pc' = "sorted"
    /\ UNCHANGED <<text, intervals, balanced, lines, err>>
    /\ UNCHANGED nonLinesVars

\* remove_overlapping_refs(tags)
RemoveOverlappingRefs ==
    /\ pc = "sorted"
    /\ LET r == remove_overlapping_refs(tags)
       IN  /\ tags' = r.out
           /\ err' = r.err
           /\ pc' = IF r.err = "none" THEN "filtered" ELSE "failed"
    /\ UNCHANGED <<text, intervals, balanced, lines>>
    /\ UNCHANGED nonLinesVars

\* balanced_tags(tags), as consumed by html_lines: the boundaries it yields
\* and the exception, if any, that ends the stream.
BalancedTags ==
    /\ pc = "filtered"
    /\ LET r == balanced_tags(tags)
       IN  /\ balanced' = r.out
           /\ err' = r.err
    /\ pc' = "balanced"
    /\ UNCHANGED <<text, intervals, tags, lines>>
    /\ UNCHANGED nonLinesVars

\* html_lines(balanced_tags(tags), decoded_slice), as consumed by the
\* template.
HtmlLines ==
    /\ pc = "balanced"
    /\ lines' = html_lines(balanced, err, text)
    /\ pc' = IF err = "none" THEN "done" ELSE "failed"
    /\ UNCHANGED <<text, intervals, tags, balanced, err>>
    /\ UNCHANGED nonLinesVars

NextLines ==
    \/ TagBoundaries
    \/ LineBoundaries
    \/ SortTags
    \/ RemoveOverlappingRefs
    \/ BalancedTags
    \/ HtmlLines

SpecLines == InitLines /\ [][NextLines]_vars

SpecStream == InitStream /\ [][NextLines]_vars

\* build_lines up to and including remove_overlapping_refs: the list `tags`
\* as it is built, sorted and compacted.
NextTags ==
    \/ TagBoundaries
    \/ LineBoundaries
    \/ SortTags
    \/ RemoveOverlappingRefs

SpecTags == InitStream /\ [][NextTags]_vars

\* build_lines up to the stream balanced_tags hands to html_lines.
NextBalanced ==
    \/ TagBoundaries
    \/ LineBoundaries
    \/ SortTags
    \/ RemoveOverlappingRefs
    \/ BalancedTags

SpecBalanced == InitStream /\ [][NextBalanced]_vars

\* A plugin set that may break the interval contract.
InitAny ==
    /\ text \in SeqsUpTo(AnyChars, MaxAnyLen)
    /\ intervals \in SeqsUpTo(AnyIntervals(Len(text)), MaxAnyIntervals)
    /\ LinesStart
    /\ NonLinesIdle

SpecAny == InitAny /\ [][NextLines]_vars

\* ------------------------------------------------------------------------
\* Notions the properties are stated in
\* ------------------------------------------------------------------------

\* The source lines of the text without their terminators.
RECURSIVE SourceLines(_)
SourceLines(ls) ==
    IF ls = << >> THEN << >> ELSE <<rstrip(Head(ls))>> \o SourceLines(Tail(ls))

\* The text of an HTML line: drop the inserted tags, decode the entities.
RECURSIVE StripTags(_)
StripTags(items) ==
    IF items = << >> THEN << >>
    ELSE IF Head(items).k = "chr" THEN <<Head(items).c>> \o StripTags(Tail(items))
    ELSE StripTags(Tail(items))

StartsWith(s, pre) == Len(s) >= Len(pre) /\ SubSeq(s, 1, Len(pre)) = pre

RECURSIVE Unescape(_)
Unescape(s) ==
    IF s = << >> THEN << >>
    ELSE IF StartsWith(s, <<"&", "l", "t", ";">>)
         THEN <<"<">> \o Unescape(SubSeq(s, 5, Len(s)))
    ELSE IF StartsWith(s, <<"&", "g", "t", ";">>)
         THEN <<">">> \o Unescape(SubSeq(s, 5, Len(s)))
    ELSE IF StartsWith(s, <<"&", "a", "m", "p", ";">>)
         THEN <<"&">> \o Unescape(SubSeq(s, 6, Len(s)))
    ELSE <<Head(s)>> \o Unescape(Tail(s))

LineText(items) == Unescape(StripTags(items))

RECURSIVE LineTexts(_)
LineTexts(ls) == IF ls = << >> THEN << >> ELSE <<LineText(Head(ls))>> \o LineTexts(Tail(ls))

\* The tags of an HTML line nest and are all closed within the line.
RECURSIVE ItemsBalanced(_, _)
ItemsBalanced(items, stack) ==
    IF items = << >> THEN stack = << >>
    ELSE LET it == Head(items) IN
         CASE it.k = "chr" -> ItemsBalanced(Tail(items), stack)
           [] it.k = "open" -> ItemsBalanced(Tail(items), stack \o <<it.p.kind>>)
           [] it.k = "close" ->
                 /\ stack # << >>
                 /\ Last(stack) = it.p.kind
                 /\ ItemsBalanced(Tail(items), Front(stack))

\* A boundary stream nests: every close carries the payload of the most
\* recent open that is still unmatched, and nothing is left open.
RECURSIVE StreamNested(_, _)
StreamNested(ts, stack) ==
    IF ts = << >> THEN stack = << >>
    ELSE IF Head(ts).is_start
         THEN StreamNested(Tail(ts), stack \o <<Head(ts).payload>>)
         ELSE /\ stack # << >>
              /\ Last(stack) = Head(ts).payload
              /\ StreamNested(Tail(ts), Front(stack))

\* At every prefix at least as many opens as closes, and as many at the end.
RECURSIVE DepthsBalanced(_, _)
DepthsBalanced(ts, depth) ==
    IF ts = << >> THEN depth = 0
    ELSE IF Head(ts).is_start THEN DepthsBalanced(Tail(ts), depth + 1)
    ELSE depth >= 1 /\ DepthsBalanced(Tail(ts), depth - 1)

\* Some open of the stream is matched (as parentheses match) by a close of
\* the same payload at the same offset.  stack holds the unmatched opens.
RECURSIVE HasZeroWidthSpan(_, _)
HasZeroWidthSpan(ts, stack) ==
    IF ts = << >> THEN FALSE
    ELSE IF Head(ts).is_start THEN HasZeroWidthSpan(Tail(ts), stack \o <<Head(ts)>>)
    ELSE IF stack = << >> THEN HasZeroWidthSpan(Tail(ts), stack)
    ELSE \/ /\ Last(stack).payload = Head(ts).payload
            /\ Last(stack).point = Head(ts).point
         \/ HasZeroWidthSpan(Tail(ts), Front(stack))

RefsOpen(ts, n) ==
    Cardinality({i \in 1..n : ts[i].is_start /\ ts[i].payload.kind = "Ref"})
        - Cardinality({i \in 1..n : ~ts[i].is_start /\ ts[i].payload.kind = "Ref"})

AnchorsOpen(items, n) ==
    Cardinality({i \in 1..n : items[i].k = "open" /\ items[i].p.kind = "Ref"})
        - Cardinality({i \in 1..n : items[i].k = "close" /\ items[i].p.kind = "Ref"})

\* The sorted stream remove_overlapping_refs was handed.
SortedTags ==
    sort_by_nesting_order(tag_boundaries(intervals).out \o line_boundaries(text))

Positions(ts, tag) == {i \in 1..Len(ts) : ts[i] = tag}
Boundaries(ts, payload) == {i \in 1..Len(ts) : ts[i].payload = payload}

RefIds == {i \in 1..Len(intervals) : intervals[i].cls = "Ref"}
TagIds == 1..Len(intervals)
PayloadOf(i) == TagWriter(intervals[i].cls, i)
OpenOf(i) == Tag(intervals[i].start, TRUE, PayloadOf(i))
CloseOf(i) == Tag(intervals[i].end, FALSE, PayloadOf(i))
PosIn(ts, tag) == CHOOSE i \in 1..Len(ts) : ts[i] = tag
KeptRefs(ts) == {i \in RefIds : Boundaries(ts, PayloadOf(i)) # {}}
Overlap(i, j) == intervals[i].start < intervals[j].end /\ intervals[j].start < intervals[i].end

SplitPayloads(ts) == {i \in TagIds : Cardinality(Boundaries(ts, PayloadOf(i))) > 2}

BadInterval(iv) == ~(0 <= iv.start /\ iv.start < iv.end /\ iv.end <= Len(text))

\* ------------------------------------------------------------------------
\* Properties of the decoration pipeline
\* ------------------------------------------------------------------------

\* C1: build_lines yields exactly one HTML line per source line of the text.
C1_OneLinePerSourceLine ==
    pc = "done" => Len(lines) = Len(splitlines(text))

\* C2: within every yielded line the <span>/<a> openers and closers are
\* balanced and properly nested; nothing stays open at the line's end.
C2_LinesSelfContained ==
    pc = "done" => \A i \in 1..Len(lines) : ItemsBalanced(lines[i], << >>)

\* C3: the output of balanced_tags is properly nested: at every prefix
\* opens >= closes, the totals are equal, and every close carries the
\* payload of the most recent unmatched open.
C3_BalancedNested ==
    pc = "balanced" =>
        /\ DepthsBalanced(balanced, 0)
        /\ StreamNested(balanced, << >>)

C3_Witness ==
    /\ pc = "balanced"
    /\ ~StreamNested(tags, << >>)
    /\ Len(balanced) > Len(tags)

\* C4: at every prefix of the stream html_lines renders, and of the HTML it
\* yields, at most one Ref is open: <a> tags never nest or overlap.
C4_AnchorsNeverNest ==
    /\ pc = "balanced" =>
           \A n \in 0..Len(balanced) : RefsOpen(balanced, n) \in {0, 1}
    /\ pc = "done" =>
           LET html == join(lines)
           IN  \A n \in 0..Len(html) : AnchorsOpen(html, n) \in {0, 1}

C4_Witness ==
    /\ pc = "done"
    /\ \E i \in RefIds : \E j \in RefIds :
           /\ i # j
           /\ Overlap(i, j)
           /\ i \in SplitPayloads(balanced)

\* C5: the output of balanced_tags holds no zero-width span: no open at
\* offset x whose matching close, of the same payload, is at offset x too.
C5_NoZeroWidthSpan ==
    pc = "balanced" => ~HasZeroWidthSpan(balanced, << >>)

C5_Witness ==
    /\ pc = "balanced"
    /\ HasZeroWidthSpan(balanced_tags_with_empties(tags).out, << >>)

\* C6: line i of the output, with the inserted tags removed and the
\* entities decoded, is source line i without its terminator; so the
\* concatenation is the text without the line terminators.
C6_LinesCarrySourceText ==
    pc = "done" =>
        /\ join(LineTexts(lines)) = join(SourceLines(splitlines(text)))
        /\ LineTexts(lines) = SourceLines(splitlines(text))

\* C7: for every Region/Ref interval [s, e) that reaches the balancer the
\* output has one open at s and one close at e, every other boundary of the
\* payload lies strictly between s and e, and no Region/Ref boundary is
\* emitted for a payload that did not reach the balancer.
C7_OffsetsPreserved ==
    pc = "balanced" =>
        /\ \A i \in TagIds :
               Boundaries(tags, PayloadOf(i)) # {} =>
                   /\ Cardinality(Positions(balanced, OpenOf(i))) = 1
                   /\ Cardinality(Positions(balanced, CloseOf(i))) = 1
                   /\ \A k \in Boundaries(balanced, PayloadOf(i)) :
                          \/ balanced[k] \in {OpenOf(i), CloseOf(i)}
                          \/ /\ intervals[i].start < balanced[k].point
                             /\ balanced[k].point < intervals[i].end
        /\ \A k \in 1..Len(balanced) :
               balanced[k].payload # Line =>
                   Boundaries(tags, balanced[k].payload) # {}

C7_Witness ==
    /\ pc = "balanced"
    /\ SplitPayloads(balanced) # {}
    /\ KeptRefs(tags) # RefIds

\* C8: remove_overlapping_refs keeps a Ref iff no kept Ref is open when its
\* open boundary is reached; dropped Refs lose both boundaries, kept Refs
\* keep both, kept Refs do not overlap, and Refs that only touch all stay.
C8_FirstOfOverlappingRefsKept ==
    pc = "filtered" =>
        LET K == KeptRefs(tags)
            S == SortedTags
        IN  /\ \A i \in RefIds :
                   i \in K <=>
                       ~\E j \in K :
                            /\ PosIn(S, OpenOf(j)) < PosIn(S, OpenOf(i))
                            /\ PosIn(S, CloseOf(j)) > PosIn(S, OpenOf(i))
            /\ \A i \in K :
                   /\ Cardinality(Positions(tags, OpenOf(i))) = 1
                   /\ Cardinality(Positions(tags, CloseOf(i))) = 1
                   /\ PosIn(tags, OpenOf(i)) < PosIn(tags, CloseOf(i))
            /\ \A i \in K : \A j \in K : i # j => ~Overlap(i, j)
            /\ (\A i \in RefIds : \A j \in RefIds : i # j => ~Overlap(i, j)) => K = RefIds

C8_Witness ==
    /\ pc = "filtered"
    /\ KeptRefs(tags) # {}
    /\ KeptRefs(tags) # RefIds

\* C9: every interval that violates 0 <= start < end <= len(text) makes
\* tag_boundaries fail its assertion, and no boundary reaches the later
\* stages.
C9_MalformedIntervalsRejected ==
    (pc # "start" /\ \E i \in 1..Len(intervals) : BadInterval(intervals[i])) =>
        (pc = "failed" /\ err = "AssertionError" /\ tags = << >>)

\* ------------------------------------------------------------------------
\* index_files
\* ------------------------------------------------------------------------

\* fnmatchcase(name, pat) for patterns of literals, '*' and '?': the whole
\* name must match, '*' matches any run of characters ('/' included).
RECURSIVE fnmatchcase(_, _)
fnmatchcase(name, pat) ==
    IF pat = << >> THEN name = << >>
    ELSE IF Head(pat) = "*"
         THEN \/ fnmatchcase(name, Tail(pat))
              \/ name # << >> /\ fnmatchcase(Tail(name), pat)
    ELSE IF Head(pat) = "?"
         THEN name # << >> /\ fnmatchcase(Tail(name), Tail(pat))
    ELSE name # << >> /\ Head(name) = Head(pat) /\ fnmatchcase(Tail(name), Tail(pat))

\* os.path.join(a, b) for a relative a without trailing separator.
os_path_join(a, b) == IF a = << >> THEN b ELSE a \o <<"/">> \o b

\* os.path.relpath(root, tree.source_folder), with '.' turned into "": the
\* names on the way from the source folder to root, joined by '/'.
RECURSIVE rel_path(_)
rel_path(names) ==
    IF names = << >> THEN << >>
    ELSE os_path_join(rel_path(Front(names)), Last(names))

\* Order of strings (list.sort on names).
Ord(c) == CASE c = "/" -> 47 [] c = "a" -> 97 [] c = "b" -> 98 [] OTHER -> 0
RECURSIVE StrLess(_, _)
StrLess(a, b) ==
    IF b = << >> THEN FALSE
    ELSE IF a = << >> THEN TRUE
    ELSE IF Head(a) # Head(b) THEN Ord(Head(a)) < Ord(Head(b))
    ELSE StrLess(Tail(a), Tail(b))

\* Variant: the names stay in the order they were listed in.
sort_names_as_listed(s) == s

RECURSIVE sort_names(_)
sort_names(s) ==
    IF s = << >> THEN << >>
    ELSE LET t == Last(s)
             front == sort_names(Front(s))
             n == Cardinality({i \in 1..Len(front) : ~StrLess(t, front[i])})
         IN  SubSeq(front, 1, n) \o <<t>> \o SubSeq(front, n + 1, Len(front))

\* Variant: the path-based globs are not consulted for folders.
RECURSIVE _unignored_folders_by_name(_, _, _, _)
_unignored_folders_by_name(fl, source_path, patterns, paths) ==
    IF fl = << >> THEN << >>
    ELSE IF ~\E p \in patterns : fnmatchcase(Head(fl), p)
         THEN <<Head(fl)>> \o _unignored_folders_by_name(Tail(fl), source_path, patterns, paths)
         ELSE _unignored_folders_by_name(Tail(fl), source_path, patterns, paths)

RECURSIVE _unignored_folders(_, _, _, _)
_unignored_folders(fl, source_path, patterns, paths) ==
    IF fl = << >> THEN << >>
    ELSE LET folder == Head(fl)
             folder_path == <<"/">> \o os_path_join(source_path, folder) \o <<"/">>
             rest == _unignored_folders(Tail(fl), source_path, patterns, paths)
         IN  IF /\ ~\E p \in patterns : fnmatchcase(folder, p)
                /\ ~\E p \in paths : fnmatchcase(folder_path, p)
             THEN <<folder>> \o rest
             ELSE rest

\* The source trees of the model: up to n files and folders, each inside the
\* source folder or inside a folder of the tree.
FolderPaths(T) == {<< >>} \cup {x.path : x \in {y \in T : y.isdir}}
Extensions(T) ==
    {x \in {[path |-> Append(p, n), isdir |-> d] :
                p \in FolderPaths(T), n \in Names, d \in BOOLEAN} :
        ~\E y \in T : y.path = x.path}
RECURSIVE Trees(_)
Trees(n) ==
    IF n = 0 THEN {{}}
    ELSE LET prev == Trees(n - 1)
         IN  prev \cup UNION {{T \cup {x} : x \in Extensions(T)} : T \in prev}

SubsetsUpTo(S, n) == {X \in SUBSET S : Cardinality(X) <= n}

\* The orders in which os.listdir may return the names of a set.
Orderings(S) ==
    {s \in [1..Cardinality(S) -> S] : \A i, j \in 1..Cardinality(S) : i # j => s[i] # s[j]}

Entries(dir, isdir) ==
    {Last(x.path) : x \in {y \in fs : y.isdir = isdir /\ Front(y.path) = dir /\ y.path # << >>}}

InitIndex ==
    /\ fs \in Trees(MaxNodes)
    /\ ignore_patterns \in SubsetsUpTo(NameGlobs, MaxGlobs)
    /\ ignore_paths \in SubsetsUpTo(PathGlobs, MaxGlobs)
    /\ walk_stack = << << >> >>
    /\ root = << >>
    /\ files = << >>
    /\ folders = << >>
    /\ indexed_files = << >>
    /\ files_table = << >>
    /\ trg_index = << >>
    /\ listings = << >>
    /\ non_text = {}
    /\ ipc = "walk"
    /\ NonIndexIdle

\* for root, folders, files in os.walk(tree.source_folder, topdown=True):
\* os.walk lists the next folder and yields it.
WalkNext ==
    /\ ipc = "walk"
    /\ walk_stack # << >>
    /\ root' = Head(walk_stack)
    /\ walk_stack' = Tail(walk_stack)
    /\ files' \in Orderings(Entries(Head(walk_stack), FALSE))
    /\ folders' \in Orderings(Entries(Head(walk_stack), TRUE))
    /\ indexed_files' = << >>
    /\ ipc' = "files"
    /\ UNCHANGED <<fs, ignore_patterns, ignore_paths, files_table, trg_index, listings,
                   non_text>>
    /\ UNCHANGED nonIndexVars

\* cur.lastrowid after INSERT INTO files: the files table has an INTEGER
\* PRIMARY KEY, which sqlite fills with one more than the largest id in use.
lastrowid_reused(rows) == IF rows = << >> THEN 1 ELSE rows[Len(rows)].id

lastrowid(rows) == IF rows = << >> THEN 1 ELSE rows[Len(rows)].id + 1

\* for f in files: one pass through the loop body.
IndexFile ==
    /\ ipc = "files"
    /\ files # << >>
    /\ LET f == Head(files)
           path == os_path_join(rel_path(root), f)
           id == lastrowid(files_table)
       IN  IF \/ \E e \in ignore_patterns : fnmatchcase(f, e)
              \/ \E e \in ignore_paths : fnmatchcase(<<"/">> \o path, e)
           THEN UNCHANGED <<files_table, trg_index, indexed_files, non_text>>
           ELSE \E is_text \in BOOLEAN :
                    IF ~is_text
                    THEN /\ non_text' = non_text \cup {path}
                         /\ UNCHANGED <<files_table, trg_index, indexed_files>>
                    ELSE /\ files_table' = Append(files_table, [id |-> id, path |-> path])
                         /\ trg_index' = Append(trg_index, [id |-> id])
                         /\ indexed_files' = Append(indexed_files, f)
                         /\ UNCHANGED non_text
    /\ files' = Tail(files)
    /\ UNCHANGED <<fs, ignore_patterns, ignore_paths, walk_stack, root, folders,
                   listings, ipc>>
    /\ UNCHANGED nonIndexVars

\* folders[:] = _unignored_folders(...); indexed_files.sort(); folders.sort();
\* build_folder(...).  os.walk then descends into what is left in folders,
\* in that order, before it goes on with the folders it had pending.
BuildFolder ==
    /\ ipc = "files"
    /\ files = << >>
    /\ LET kept == sort_names(_unignored_folders(folders, rel_path(root),
                                                 ignore_patterns, ignore_paths))
       IN  /\ folders' = kept
           /\ indexed_files' = sort_names(indexed_files)
           /\ listings' = Append(listings, [folder |-> rel_path(root),
                                            files |-> sort_names(indexed_files),
                                            folders |-> kept])
           /\ walk_stack' = [i \in 1..Len(kept) |-> Append(root, kept[i])] \o walk_stack
    /\ ipc' = "walk"
    /\ UNCHANGED <<fs, ignore_patterns, ignore_paths, root, files, files_table, trg_index,
                   non_text>>
    /\ UNCHANGED nonIndexVars

\* conn.commit() once os.walk is exhausted.
Commit ==
    /\ ipc = "walk"
    /\ walk_stack = << >>
    /\ ipc' = "done"
    /\ UNCHANGED <<fs, ignore_patterns, ignore_paths, walk_stack, root, files, folders,
                   indexed_files, files_table, trg_index, listings, non_text>>
    /\ UNCHANGED nonIndexVars

NextIndex ==
    \/ WalkNext
    \/ IndexFile
    \/ BuildFolder
    \/ Commit

SpecIndex == InitIndex /\ [][NextIndex]_vars

\* ------------------------------------------------------------------------
\* Properties of the file indexer
\* ------------------------------------------------------------------------
IgnoredName(name) == \E p \in ignore_patterns : fnmatchcase(name, p)
IgnoredFilePath(names) ==
    \E p \in ignore_paths : fnmatchcase(<<"/">> \o rel_path(names), p)
IgnoredFolder(names) ==
    \/ IgnoredName(Last(names))
    \/ \E p \in ignore_paths : fnmatchcase(<<"/">> \o rel_path(names) \o <<"/">>, p)
BeneathIgnoredFolder(names) ==
    \E k \in 1..(Len(names) - 1) : IgnoredFolder(SubSeq(names, 1, k))
HasRow(names) == \E k \in 1..Len(files_table) : files_table[k].path = rel_path(names)
Descended(names) ==
    \/ ipc # "walk" /\ root = names
    \/ \E k \in 1..Len(listings) : listings[k].folder = rel_path(names)
    \/ \E k \in 1..Len(walk_stack) : walk_stack[k] = names

\* C10: no file whose name matches a name-glob, or whose '/' + path matches a
\* path-glob, has a row in the files table; an ignored folder is never
\* descended, so no file beneath it has a row either.
C10_IgnoredNeverIndexed ==
    \A x \in fs :
        /\ (~x.isdir /\ (\/ IgnoredName(Last(x.path))
                         \/ IgnoredFilePath(x.path)
                         \/ BeneathIgnoredFolder(x.path)))
               => ~HasRow(x.path)
        /\ (x.isdir /\ (IgnoredFolder(x.path) \/ BeneathIgnoredFolder(x.path)))
               => ~Descended(x.path)

C10_Witness ==
    /\ ipc = "done"
    /\ files_table # << >>
    /\ \E x \in fs :
           /\ ~x.isdir
           /\ BeneathIgnoredFolder(x.path)
           /\ ~IgnoredName(Last(x.path))
           /\ ~IgnoredFilePath(x.path)

\* C11: at every point of index_files and after it, the ids of the files
\* table are 1..n in insertion order (so unique and dense), no path occurs
\* twice, the trigram store holds exactly one document per files row, with
\* the same id, and a file that is not text has neither row.
C11_FileIdsDenseOneToOne ==
    /\ \A k \in 1..Len(files_table) : files_table[k].id = k
    /\ \A j, k \in 1..Len(files_table) :
           files_table[j].path = files_table[k].path => j = k
    /\ Len(trg_index) = Len(files_table)
    /\ \A k \in 1..Len(trg_index) : trg_index[k].id = files_table[k].id
    /\ \A p \in non_text : \A k \in 1..Len(files_table) : files_table[k].path # p

C11_Witness ==
    /\ ipc = "done"
    /\ Len(files_table) >= 2
    /\ non_text # {}

\* ------------------------------------------------------------------------
\* _sliced_range_bounds(a, b, slice_size)
\* ------------------------------------------------------------------------
\* this_max = min(b, this_min + slice_size - 1)
slice_max_one_more(b, min, size) == Min(b, min + size)

slice_max(b, min, size) == Min(b, min + size - 1)

\* this_max before the first pass of the loop has bound it.
Unbound == 0 - 1

\* while this_min == a or this_max < b: Python looks at this_max only when
\* this_min differs from a.
slice_goes_on(a, b, min, max) == min = a \/ max < b

\* The pairs the generator yields, as the list run_html_workers consumes.
RECURSIVE sliced_range_bounds_from(_, _, _, _, _)
sliced_range_bounds_from(a, b, size, min, max) ==
    IF slice_goes_on(a, b, min, max)
    THEN LET m == slice_max(b, min, size)
         IN  <<[min |-> min, max |-> m]>>
                 \o sliced_range_bounds_from(a, b, size, m + 1, m)
    ELSE << >>

_sliced_range_bounds(a, b, size) == sliced_range_bounds_from(a, b, size, a, Unbound)

\* run_html_workers calls _sliced_range_bounds(1, max_file_id, 500); the
\* model takes every max_file_id and slice size up to its bounds.
InitSlices ==
    /\ sl_a = 1
    /\ sl_b \in 1..MaxFileId
    /\ slice_size \in 1..MaxSliceSize
    /\ this_min = sl_a
    /\ this_max = Unbound
    /\ yielded = << >>
    /\ spc = "loop"
    /\ NonSlicesIdle

\* One pass of the while loop: bind this_max, yield, move this_min.  The
\* model follows the generator for MaxYields passes.
SliceYield ==
    /\ spc = "loop"
    /\ slice_goes_on(sl_a, sl_b, this_min, this_max)
    /\ Len(yielded) < MaxYields
    /\ this_max' = slice_max(sl_b, this_min, slice_size)
    /\ yielded' = Append(yielded, [min |-> this_min, max |-> this_max'])
    /\ this_min' = this_max' + 1
    /\ UNCHANGED <<sl_a, sl_b, slice_size, spc>>
    /\ UNCHANGED nonSliceVars

\* The loop condition fails: the generator is exhausted.
SliceStop ==
    /\ spc = "loop"
    /\ ~slice_goes_on(sl_a, sl_b, this_min, this_max)
    /\ spc' = "done"
    /\ UNCHANGED <<sl_a, sl_b, slice_size, this_min, this_max, yielded>>
    /\ UNCHANGED nonSliceVars

NextSlices ==
    \/ SliceYield
    \/ SliceStop

SpecSlices == InitSlices /\ [][NextSlices]_vars

RangeSize(r) == r.max - r.min + 1
RangesHolding(id) == {k \in 1..Len(yielded) : yielded[k].min <= id /\ id <= yielded[k].max}

\* C12: for max_id >= 1 and a slice size S >= 1 the generator yields at
\* most max_id ranges and stops; the ranges partition [1, max_id]: the first
\* starts at 1, the last ends at max_id, each starts right after the one
\* before, all but the last hold exactly S ids and the last holds 1..S, so
\* every file id lies in exactly one range.
C12_RangesPartition ==
    /\ Len(yielded) <= sl_b
    /\ spc = "done" =>
           /\ yielded # << >>
           /\ yielded = _sliced_range_bounds(sl_a, sl_b, slice_size)
           /\ yielded[1].min = 1
           /\ Last(yielded).max = sl_b
           /\ \A k \in 1..(Len(yielded) - 1) :
                  /\ yielded[k + 1].min = yielded[k].max + 1
                  /\ RangeSize(yielded[k]) = slice_size
           /\ RangeSize(Last(yielded)) \in 1..slice_size
           /\ \A id \in 1..sl_b : Cardinality(RangesHolding(id)) = 1

C12_Witness ==
    /\ spc = "done"
    /\ Len(yielded) >= 3
    /\ RangeSize(Last(yielded)) < slice_size

\* ------------------------------------------------------------------------
\* build_instance, build_tree, finalize_database and run_html_workers
\* ------------------------------------------------------------------------
\* run_html_workers: _sliced_range_bounds(1, max_file_id, 500)
SliceSize == 500

\* Numbers of indexed files that put a task's range on either side of a
\* slice boundary.
FileCounts ==
    {(k - 1) * SliceSize + 1 : k \in 1..MaxTasks} \cup {k * SliceSize : k \in 1..MaxTasks}

\* Exit codes of the build command.
ExitCodes == {0, 1, 2}

\* How _build_html_for_file_ids can end: it returns None, it returns a
\* failure record, or an exception leaves it.
TaskOutcomes == {"None", "failure", "raised"}

\* exit_status while the process runs.
StillRunning == 0 - 1

\* The calls of build_instance's loop body, each followed by the next.
next_call_workers_early(call) ==
    CASE call = "create_tables" -> "index_files"
      [] call = "index_files" -> "run_html_workers"
      [] call = "run_html_workers" -> "build_tree"
      [] call = "build_tree" -> "finalize_database"
      [] call = "finalize_database" -> "commit"
      [] call = "commit" -> "close"

next_call(call) ==
    CASE call = "create_tables" -> "index_files"
      [] call = "index_files" -> "build_tree"
      [] call = "build_tree" -> "finalize_database"
      [] call = "finalize_database" -> "commit"
      [] call = "commit" -> "run_html_workers"
      [] call = "run_html_workers" -> "close"

\* build_tree: if r != 0
build_failed_negative(code) == code < 0

build_failed(code) == code # 0

\* run_html_workers: if result
is_failure_never(result) == FALSE

is_failure(result) == result # "None"

Logged(call, arg) == Append(log, [tree |-> tree, call |-> call, arg |-> arg])

InitBuild ==
    /\ n_trees \in 1..MaxTrees
    /\ tree = 0
    /\ bpc = "next_tree"
    /\ conn = "none"
    /\ dirty = FALSE
    /\ indexers \in 0..MaxIndexers
    /\ pre_done = 0
    /\ post_done = 0
    /\ cmd_r = Unbound
    /\ files_rows = 0
    /\ nb_jobs \in 1..MaxJobs
    /\ pool = "none"
    /\ futures = << >>
    /\ seen = {}
    /\ exc = 0
    /\ exit_status = StillRunning
    /\ log = << >>
    /\ NonBuildIdle

\* for tree in trees: ... conn = connect_database(tree)
StartTree ==
    /\ bpc = "next_tree"
    /\ tree < n_trees
    /\ tree' = tree + 1
    /\ conn' = "open"
    /\ dirty' = FALSE
    /\ pre_done' = 0
    /\ post_done' = 0
    /\ cmd_r' = Unbound
    /\ files_rows' = 0
    /\ pool' = "none"
    /\ futures' = << >>
    /\ seen' = {}
    /\ log' = Append(log, [tree |-> tree + 1, call |-> "connect_database", arg |-> 0])
    /\ bpc' = "create_tables"
    /\ UNCHANGED <<n_trees, indexers, nb_jobs, exc, exit_status>>
    /\ UNCHANGED nonBuildVars

\* The loop over trees is exhausted: build_instance returns.
AllTreesBuilt ==
    /\ bpc = "next_tree"
    /\ tree = n_trees
    /\ bpc' = "exited"
    /\ exit_status' = 0
    /\ UNCHANGED <<n_trees, tree, conn, dirty, indexers, pre_done, post_done, cmd_r,
                   files_rows, nb_jobs, pool, futures, seen, exc, log>>
    /\ UNCHANGED nonBuildVars

\* create_tables(tree, conn)
CreateTables ==
    /\ bpc = "create_tables"
    /\ dirty' = TRUE
    /\ log' = Logged("create_tables", 0)
    /\ bpc' = next_call("create_tables")
    /\ UNCHANGED <<n_trees, tree, conn, indexers, pre_done, post_done, cmd_r,
                   files_rows, nb_jobs, pool, futures, seen, exc, exit_status>>
    /\ UNCHANGED nonBuildVars

\* index_files(tree, conn): the walk of SpecIndex, taken here as one call
\* that leaves some number of rows and ends with its conn.commit().
IndexFiles ==
    /\ bpc = "index_files"
    /\ files_rows' \in FileCounts
    /\ dirty' = FALSE
    /\ log' = Logged("index_files", 0)
    /\ bpc' = next_call("index_files")
    /\ UNCHANGED <<n_trees, tree, conn, indexers, pre_done, post_done, cmd_r,
                   nb_jobs, pool, futures, seen, exc, exit_status>>
    /\ UNCHANGED nonBuildVars

\* build_tree: for indexer in indexers: indexer.pre_process(tree, environ)
PreProcess ==
    /\ bpc = "build_tree"
    /\ cmd_r = Unbound
    /\ pre_done < indexers
    /\ pre_done' = pre_done + 1
    /\ log' = Logged("pre_process", pre_done + 1)
    /\ UNCHANGED <<n_trees, tree, bpc, conn, dirty, indexers, post_done, cmd_r,
                   files_rows, nb_jobs, pool, futures, seen, exc, exit_status>>
    /\ UNCHANGED nonBuildVars

\* build_tree: r = subprocess.call(...); if r != 0: ... sys.exit(1)
RunCommand ==
    /\ bpc = "build_tree"
    /\ cmd_r = Unbound
    /\ pre_done = indexers
    /\ \E code \in ExitCodes :
           /\ cmd_r' = code
           /\ log' = Logged("command", code)
           /\ IF build_failed(code)
              THEN bpc' = "exited" /\ exit_status' = 1
              ELSE UNCHANGED <<bpc, exit_status>>
    /\ UNCHANGED <<n_trees, tree, conn, dirty, indexers, pre_done, post_done,
                   files_rows, nb_jobs, pool, futures, seen, exc>>
    /\ UNCHANGED nonBuildVars

\* build_tree: for indexer in indexers: indexer.post_process(tree, conn)
PostProcess ==
    /\ bpc = "build_tree"
    /\ cmd_r # Unbound
    /\ post_done < indexers
    /\ post_done' = post_done + 1
    /\ dirty' = TRUE
    /\ log' = Logged("post_process", post_done + 1)
    /\ UNCHANGED <<n_trees, tree, bpc, conn, indexers, pre_done, cmd_r,
                   files_rows, nb_jobs, pool, futures, seen, exc, exit_status>>
    /\ UNCHANGED nonBuildVars

\* build_tree returns.
BuildTreeReturn ==
    /\ bpc = "build_tree"
    /\ cmd_r # Unbound
    /\ post_done = indexers
    /\ log' = Logged("build_tree", 0)
    /\ bpc' = next_call("build_tree")
    /\ UNCHANGED <<n_trees, tree, conn, dirty, indexers, pre_done, post_done, cmd_r,
                   files_rows, nb_jobs, pool, futures, seen, exc, exit_status>>
    /\ UNCHANGED nonBuildVars

\* finalize_database(conn): if not isOkay: sys.exit(1); conn.commit()
FinalizeDatabase ==
    /\ bpc = "finalize_database"
    /\ \E isOkay \in BOOLEAN :
           IF isOkay
           THEN /\ dirty' = FALSE
                /\ log' = Logged("finalize_database", 0)
                /\ bpc' = next_call("finalize_database")
                /\ UNCHANGED exit_status
           ELSE /\ log' = Logged("finalize_database", 1)
                /\ bpc' = "exited"
                /\ exit_status' = 1
                /\ UNCHANGED dirty
    /\ UNCHANGED <<n_trees, tree, conn, indexers, pre_done, post_done, cmd_r,
                   files_rows, nb_jobs, pool, futures, seen, exc>>
    /\ UNCHANGED nonBuildVars

\* conn.commit() after finalize_database
CommitDatabase ==
    /\ bpc = "commit"
    /\ dirty' = FALSE
    /\ log' = Logged("commit", 0)
    /\ bpc' = next_call("commit")
    /\ UNCHANGED <<n_trees, tree, conn, indexers, pre_done, post_done, cmd_r,
                   files_rows, nb_jobs, pool, futures, seen, exc, exit_status>>
    /\ UNCHANGED nonBuildVars

\* run_html_workers: max_file_id = SELECT max(files.id); with
\* ProcessPoolExecutor(max_workers=nb_jobs) as pool: futures = [pool.submit(
\* _build_html_for_file_ids, tree, start, end) for (start, end) in
\* _sliced_range_bounds(1, max_file_id, 500)]
SubmitTasks ==
    /\ bpc = "run_html_workers"
    /\ pool = "none"
    /\ LET max_file_id == files_rows
           ranges == _sliced_range_bounds(1, max_file_id, SliceSize)
       IN  futures' = [i \in 1..Len(ranges) |->
                          [start |-> ranges[i].min, end |-> ranges[i].max,
                           state |-> "pending", result |-> "none"]]
    /\ pool' = "open"
    /\ log' = Logged("run_html_workers", 0)
    /\ UNCHANGED <<n_trees, tree, bpc, conn, dirty, indexers, pre_done, post_done, cmd_r,
                   files_rows, nb_jobs, seen, exc, exit_status>>
    /\ UNCHANGED nonBuildVars

InState(st) == {i \in 1..Len(futures) : futures[i].state = st}

\* The pool hands the oldest queued call to a free worker process.  It does
\* so whether or not the master has begun to leave the with block:
\* shutdown(wait=True) lets the queued calls run.
TaskStart ==
    /\ pool \in {"open", "exiting"}
    /\ Cardinality(InState("running")) < nb_jobs
    /\ \E i \in InState("pending") :
           /\ \A j \in InState("pending") : i <= j
           /\ futures' = [futures EXCEPT ![i].state = "running"]
    /\ UNCHANGED <<n_trees, tree, bpc, conn, dirty, indexers, pre_done, post_done, cmd_r,
                   files_rows, nb_jobs, pool, seen, exc, exit_status, log>>
    /\ UNCHANGED nonBuildVars

\* A worker process comes to the end of _build_html_for_file_ids.
TaskFinish ==
    /\ pool \in {"open", "exiting"}
    /\ \E i \in InState("running") : \E result \in TaskOutcomes :
           futures' = [futures EXCEPT ![i].state = "finished", ![i].result = result]
    /\ UNCHANGED <<n_trees, tree, bpc, conn, dirty, indexers, pre_done, post_done, cmd_r,
                   files_rows, nb_jobs, pool, seen, exc, exit_status, log>>
    /\ UNCHANGED nonBuildVars

\* for num_done, future in enumerate(as_completed(futures), 1):
\*     result = future.result(); if result: ... raise type, value
\* future.result() raises what the task raised; the with block is left when
\* an exception is on its way or as_completed is exhausted.
ObserveResult ==
    /\ bpc = "run_html_workers"
    /\ pool = "open"
    /\ \E i \in InState("finished") \ seen :
           /\ seen' = seen \cup {i}
           /\ IF futures[i].result = "raised" \/ is_failure(futures[i].result)
              THEN exc' = i /\ pool' = "exiting"
              ELSE /\ exc' = exc
                   /\ pool' = IF seen \cup {i} = 1..Len(futures) THEN "exiting" ELSE "open"
    /\ UNCHANGED <<n_trees, tree, bpc, conn, dirty, indexers, pre_done, post_done, cmd_r,
                   files_rows, nb_jobs, futures, exit_status, log>>
    /\ UNCHANGED nonBuildVars

\* ProcessPoolExecutor.__exit__ is shutdown(wait=True): it returns once every
\* submitted call has run.  Then run_html_workers returns, or the exception
\* goes on through build_instance and ends the process.
PoolExit ==
    /\ bpc = "run_html_workers"
    /\ pool = "exiting"
    /\ InState("finished") = 1..Len(futures)
    /\ pool' = "closed"
    /\ IF exc = 0
       THEN bpc' = next_call("run_html_workers") /\ UNCHANGED exit_status
       ELSE bpc' = "exited" /\ exit_status' = 1
    /\ UNCHANGED <<n_trees, tree, conn, dirty, indexers, pre_done, post_done, cmd_r,
                   files_rows, nb_jobs, futures, seen, exc, log>>
    /\ UNCHANGED nonBuildVars

\* conn.commit(); conn.close(); print "(finished building ...)"
CloseConnection ==
    /\ bpc = "close"
    /\ conn' = "closed"
    /\ dirty' = FALSE
    /\ log' = Logged("close", 0)
    /\ bpc' = "next_tree"
    /\ UNCHANGED <<n_trees, tree, indexers, pre_done, post_done, cmd_r,
                   files_rows, nb_jobs, pool, futures, seen, exc, exit_status>>
    /\ UNCHANGED nonBuildVars

NextBuild ==
    \/ StartTree
    \/ AllTreesBuilt
    \/ CreateTables
    \/ IndexFiles
    \/ PreProcess
    \/ RunCommand
    \/ PostProcess
    \/ BuildTreeReturn
    \/ FinalizeDatabase
    \/ CommitDatabase
    \/ SubmitTasks
    \/ TaskStart
    \/ TaskFinish
    \/ ObserveResult
    \/ PoolExit
    \/ CloseConnection

SpecBuild == InitBuild /\ [][NextBuild]_vars

\* The master runs one call after the other, every task comes to an end and
\* the pool keeps its worker processes busy: no step that can be taken is
\* put off for ever.
SpecBuildFair == SpecBuild /\ WF_vars(NextBuild)

\* ------------------------------------------------------------------------
\* Properties of the build
\* ------------------------------------------------------------------------
ReturnedNormally == pool = "closed" /\ bpc # "exited"
AllFinished == InState("finished") = 1..Len(futures)
AllNone == \A i \in 1..Len(futures) : futures[i].result = "None"
ReturnedRecord == \E i \in 1..Len(futures) : futures[i].result = "failure"
WorkersFailedExit ==
    /\ exit_status = 1
    /\ exc \in seen
    /\ futures[exc].result \in {"failure", "raised"}

\* C13: run_html_workers returns normally exactly when every task returned
\* None: it never returns normally otherwise, and it does return once all
\* tasks have ended with None.  Once a task has returned a failure record,
\* whatever the order of completion, the master comes to observe a failed
\* task, the exception of the task it observed goes on, the process exits
\* with status 1, and run_html_workers stays the last call ever made: the tree
\* is not finished and no later tree is begun.
C13_FailurePropagates ==
    /\ [](ReturnedNormally => AllNone)
    /\ (pool = "open" /\ AllFinished /\ AllNone) ~> ReturnedNormally
    /\ ReturnedRecord ~> WorkersFailedExit
    /\ [](exc # 0 =>
             /\ exc \in seen
             /\ futures[exc].result \in {"failure", "raised"}
             /\ Last(log) = [tree |-> tree, call |-> "run_html_workers", arg |-> 0]
             /\ bpc \in {"run_html_workers", "exited"})

C13_Witness ==
    /\ WorkersFailedExit
    /\ Len(futures) >= 2
    /\ futures[exc].result = "failure"
    /\ \E i \in 1..Len(futures) : futures[i].result = "None"
    /\ tree < n_trees

\* C15: once the master has observed a failed task the pool is terminated
\* and what is outstanding is abandoned: from then on no queued task is
\* started and no running task is run to its end, so the futures stay as
\* they were when the failure was observed.
C15_OutstandingTasksAbandoned == [][exc # 0 => futures' = futures]_vars

CallNames ==
    {"create_tables", "index_files", "build_tree", "finalize_database", "commit",
     "run_html_workers"}
PhaseOrder ==
    <<"create_tables", "index_files", "build_tree", "finalize_database", "commit",
      "run_html_workers">>
RECURSIVE CallsOf(_, _)
CallsOf(t, k) ==
    IF k = 0 THEN << >>
    ELSE IF log[k].tree = t /\ log[k].call \in CallNames
         THEN Append(CallsOf(t, k - 1), log[k].call)
         ELSE CallsOf(t, k - 1)
IsPrefix(p, q) == Len(p) <= Len(q) /\ \A k \in 1..Len(p) : p[k] = q[k]
LoggedFor(t, call, arg) ==
    \E k \in 1..Len(log) : log[k] = [tree |-> t, call |-> call, arg |-> arg]

\* C16: for every tree the calls create_tables, index_files, build_tree,
\* finalize_database, commit, run_html_workers are made in this order; while
\* a worker task of the tree is submitted, index_files has returned (it
\* commits last), the build command has exited with 0 and every indexer's
\* post_process has run, finalize_database has passed, and the master's
\* connection holds nothing uncommitted.
C16_WorkersAfterCommittedIndex ==
    /\ \A t \in 1..tree : IsPrefix(CallsOf(t, Len(log)), PhaseOrder)
    /\ futures # << >> =>
           /\ LoggedFor(tree, "index_files", 0)
           /\ LoggedFor(tree, "command", 0)
           /\ post_done = indexers
           /\ LoggedFor(tree, "build_tree", 0)
           /\ LoggedFor(tree, "finalize_database", 0)
           /\ LoggedFor(tree, "commit", 0)
           /\ ~dirty

C16_Witness ==
    /\ tree = 2
    /\ indexers >= 1
    /\ InState("running") # {}
    /\ InState("pending") # {}

\* C17: a non-zero exit of the build command is the last thing that happens
\* in the build (no post_process, finalize_database, run_html_workers or
\* later tree follows it) and the process has exit status 1; whenever the
\* command has been started every indexer's pre_process has run for the
\* tree, and a post_process runs only after a command of its tree that
\* exited with 0.
C17_FailedCommandAborts ==
    /\ \A k \in 1..Len(log) :
           /\ (log[k].call = "command" /\ log[k].arg # 0) =>
                  /\ k = Len(log)
                  /\ exit_status = 1
                  /\ bpc = "exited"
                  /\ post_done = 0
                  /\ futures = << >>
           /\ log[k].call = "command" =>
                  \A n \in 1..indexers :
                      \E j \in 1..(k - 1) :
                          log[j] = [tree |-> log[k].tree, call |-> "pre_process", arg |-> n]
           /\ log[k].call = "post_process" =>
                  \E j \in 1..(k - 1) :
                      log[j] = [tree |-> log[k].tree, call |-> "command", arg |-> 0]

C17_Witness ==
    /\ tree = 2
    /\ indexers >= 1
    /\ Last(log).call = "command"
    /\ Last(log).arg # 0
    /\ LoggedFor(1, "post_process", 1)

\* C19: the master's connection is closed before the pool is launched: as
\* long as the pool is up or a task is queued or running, the master holds
\* no open connection.
C19_MasterConnectionClosed ==
    (pool \in {"open", "exiting"} \/ InState("pending") \cup InState("running") # {})
        => conn # "open"

\* ------------------------------------------------------------------------
\* _build_html_for_file_ids(tree, start, end)
\* ------------------------------------------------------------------------
\* The path of the files row with a given id, and the value path has before
\* the first row is fetched.
PathOf(k) == [name |-> "file", n |-> k]
NoFileYet == [name |-> "(no file yet)", n |-> 0]
NoRecord == [id |-> Unbound, path |-> NoFileYet]

\* The rows of SELECT ... WHERE trg_index.id = files.id AND trg_index.id >= ?
\* AND trg_index.id <= ?: index_files left one files row and one trg_index
\* row for every id, and sqlite walks a range of rowids upwards.
select_rows(start, end) ==
    [k \in 1..(end - start + 1) |-> [id |-> start + k - 1, path |-> PathOf(start + k - 1)]]

\* Where an exception of htmlify goes: the try statement encloses the whole
\* loop, so to the except clause and not to the next row.
htmlify_error_skips_file == "fetch"

htmlify_error_goes_to == "except"

InitWorker ==
    /\ task_start \in 1..MaxRangeStart
    /\ task_end \in task_start..(task_start + MaxRangeLen - 1)
    /\ wpc = "connect_database"
    /\ w_id = Unbound
    /\ w_path = NoFileYet
    /\ cursor = << >>
    /\ decorated = << >>
    /\ raised_at = "none"
    /\ w_failed = 0
    /\ w_outcome = "none"
    /\ w_record = NoRecord
    /\ NonWorkerIdle

\* except Exception as exc: type, value, traceback = exc_info();
\* return format_exc(), type, value, id, path
\* Reading id while no row has bound it raises UnboundLocalError out of the
\* except clause, and so out of the task.
Except(statement) ==
    /\ raised_at' = statement
    /\ wpc' = "returned"
    /\ IF w_id = Unbound
       THEN w_outcome' = "raised" /\ w_record' = NoRecord
       ELSE w_outcome' = "failure" /\ w_record' = [id |-> w_id, path |-> w_path]

\* path = '(no file yet)'; conn = connect_database(tree)
ConnectDatabase ==
    /\ wpc = "connect_database"
    /\ \E ok \in BOOLEAN :
           IF ok
           THEN wpc' = "open_log" /\ UNCHANGED <<raised_at, w_outcome, w_record>>
           ELSE Except("connect_database")
    /\ UNCHANGED <<task_start, task_end, w_id, w_path, cursor, decorated, w_failed>>
    /\ UNCHANGED nonWorkerVars

\* with open_log(tree, 'build-html-%s-%s.log' % (start, end)) as log:
OpenLog ==
    /\ wpc = "open_log"
    /\ \E ok \in BOOLEAN :
           IF ok
           THEN wpc' = "load_htmlifiers" /\ UNCHANGED <<raised_at, w_outcome, w_record>>
           ELSE Except("open_log")
    /\ UNCHANGED <<task_start, task_end, w_id, w_path, cursor, decorated, w_failed>>
    /\ UNCHANGED nonWorkerVars

\* plugins = load_htmlifiers(tree); for plugin in plugins: plugin.load(...);
\* then the SELECT is executed.
LoadHtmlifiers ==
    /\ wpc = "load_htmlifiers"
    /\ \E ok \in BOOLEAN :
           IF ok
           THEN /\ wpc' = "fetch"
                /\ cursor' = select_rows(task_start, task_end)
                /\ UNCHANGED <<raised_at, w_outcome, w_record>>
           ELSE Except("load_htmlifiers") /\ UNCHANGED cursor
    /\ UNCHANGED <<task_start, task_end, w_id, w_path, decorated, w_failed>>
    /\ UNCHANGED nonWorkerVars

\* for num_files, (id, path, icon, text) in enumerate(conn.execute(...), 1):
\* the next row binds id and path, or the rows are exhausted.
Fetch ==
    /\ wpc = "fetch"
    /\ IF cursor = << >>
       THEN wpc' = "commit" /\ UNCHANGED <<w_id, w_path, cursor>>
       ELSE /\ w_id' = Head(cursor).id
            /\ w_path' = Head(cursor).path
            /\ cursor' = Tail(cursor)
            /\ wpc' = "htmlify"
    /\ UNCHANGED <<task_start, task_end, decorated, raised_at, w_failed, w_outcome, w_record>>
    /\ UNCHANGED nonWorkerVars

\* log.write('Starting %s.\n' % path); htmlify(tree, conn, icon, path, ...)
Htmlify ==
    /\ wpc = "htmlify"
    /\ decorated' = Append(decorated, w_id)
    /\ \E ok \in BOOLEAN :
           IF ok
           THEN wpc' = "fetch" /\ UNCHANGED <<raised_at, w_failed, w_outcome, w_record>>
           ELSE /\ w_failed' = w_id
                /\ IF htmlify_error_goes_to = "except"
                   THEN Except("htmlify")
                   ELSE wpc' = "fetch" /\ UNCHANGED <<raised_at, w_outcome, w_record>>
    /\ UNCHANGED <<task_start, task_end, w_id, w_path, cursor>>
    /\ UNCHANGED nonWorkerVars

\* conn.commit(); conn.close(); log.write('Finished ...'); the function ends
\* and returns None.
CommitAndReturn ==
    /\ wpc = "commit"
    /\ \E ok \in BOOLEAN :
           IF ok
           THEN /\ wpc' = "returned"
                /\ w_outcome' = "None"
                /\ UNCHANGED <<raised_at, w_record>>
           ELSE Except("commit")
    /\ UNCHANGED <<task_start, task_end, w_id, w_path, cursor, decorated, w_failed>>
    /\ UNCHANGED nonWorkerVars

NextWorker ==
    \/ ConnectDatabase
    \/ OpenLog
    \/ LoadHtmlifiers
    \/ Fetch
    \/ Htmlify
    \/ CommitAndReturn

SpecWorker == InitWorker /\ [][NextWorker]_vars

\* C14: the task never raises: whichever statement raised, it ends by
\* returning a failure record, and when htmlify raised the record carries the
\* id and the path of the file that was being htmlified.
C14_TaskNeverRaises ==
    /\ w_outcome \in {"none", "None", "failure"}
    /\ raised_at # "none" => w_outcome = "failure"
    /\ raised_at = "htmlify" => w_record = [id |-> w_failed, path |-> PathOf(w_failed)]

RECURSIVE Ascending(_)
Ascending(ids) ==
    \/ Len(ids) <= 1
    \/ ids[1] < ids[2] /\ Ascending(Tail(ids))

MenuChars == {"\"", "\\", "&", "<", ">", "l", "t", ";"}

\* Menus: a list of dicts, as the clang plugin builds and the tests read.
Menus == {<< >>} \cup {<<[html |-> t]>> : t \in SeqsUpTo(MenuChars, MaxMenuLen)}
SimpleMenu == <<[html |-> <<"\"", "&", "<", "\\">>]>>

\* Texts of a page with a menu on it.
MenuTextChars == {"a", "<", "\n"}

\* json.dumps of a str: quotes around it, '"' and '\' behind a backslash.
json_dumps_char(c) ==
    CASE c = "\"" -> <<"\\", "\"">>
      [] c = "\\" -> <<"\\", "\\">>
      [] OTHER -> <<c>>
RECURSIVE json_dumps_chars(_)
json_dumps_chars(t) ==
    IF t = << >> THEN << >> ELSE json_dumps_char(Head(t)) \o json_dumps_chars(Tail(t))
json_dumps_str(t) == <<"\"">> \o json_dumps_chars(t) \o <<"\"">>

\* json.dumps of a menu of at most one item: [] or [{"html": "..."}]
json_dumps(m) ==
    IF m = << >> THEN <<"[", "]">>
    ELSE <<"[", "{", "\"", "h", "t", "m", "l", "\"", ":", " ">>
             \o json_dumps_str(m[1].html) \o <<"}", "]">>

\* cgi.escape(s, True): as cgi.escape(s), and '"' becomes &quot;
RECURSIVE cgi_escape_unquoted(_)
cgi_escape_unquoted(t) ==
    IF t = << >> THEN << >> ELSE escape_char(Head(t)) \o cgi_escape_unquoted(Tail(t))

RECURSIVE cgi_escape_quote(_)
cgi_escape_quote(t) ==
    IF t = << >> THEN << >>
    ELSE (IF Head(t) = "\"" THEN <<"&", "q", "u", "o", "t", ";">> ELSE escape_char(Head(t)))
             \o cgi_escape_quote(Tail(t))

\* Ref.opener: u'<a data-menu="%s">' % cgi.escape(json.dumps(self.payload), True)
AnchorPrefix == <<"<", "a", " ", "d", "a", "t", "a", "-", "m", "e", "n", "u", "=", "\"">>
Ref_opener(m) == AnchorPrefix \o cgi_escape_quote(json_dumps(m)) \o <<"\"", ">">>
Ref_closer == <<"<", "/", "a", ">">>

\* Region.opener and Region.closer, for the one class name of the model.
Region_opener ==
    <<"<", "s", "p", "a", "n", " ", "c", "l", "a", "s", "s", "=", "\"", "k", "\"", ">">>
Region_closer == <<"<", "/", "s", "p", "a", "n", ">">>

\* The characters of a segment html_lines appends.
render_item(it, m) ==
    CASE it.k = "chr" -> <<it.c>>
      [] it.k = "open" -> IF it.p.kind = "Ref" THEN Ref_opener(m) ELSE Region_opener
      [] it.k = "close" -> IF it.p.kind = "Ref" THEN Ref_closer ELSE Region_closer
RECURSIVE render(_, _)
render(items, m) ==
    IF items = << >> THEN << >> ELSE render_item(Head(items), m) \o render(Tail(items), m)

\* str.replace(old, new)
RECURSIVE replace(_, _, _)
replace(t, old, new) ==
    IF t = << >> THEN << >>
    ELSE IF StartsWith(t, old)
         THEN new \o replace(SubSeq(t, Len(old) + 1, Len(t)), old, new)
         ELSE <<Head(t)>> \o replace(Tail(t), old, new)

\* menu_on: match.group(1).replace('&quot;', '"').replace('&lt;', '<')
\*                         .replace('&gt;', '>').replace('&amp;', '&')
attr_decoded(v) ==
    replace(replace(replace(replace(v,
        <<"&", "q", "u", "o", "t", ";">>, <<"\"">>),
        <<"&", "l", "t", ";">>, <<"<">>),
        <<"&", "g", "t", ";">>, <<">">>),
        <<"&", "a", "m", "p", ";">>, <<"&">>)

Malformed == [state |-> "malformed", val |-> << >>]
NoMatch == [state |-> "nomatch", val |-> << >>]

\* json.loads of a str, from behind its opening quote to its closing one.
RECURSIVE json_loads_str(_, _)
json_loads_str(t, acc) ==
    IF t = << >> THEN [ok |-> FALSE, val |-> << >>, rest |-> << >>]
    ELSE IF Head(t) = "\"" THEN [ok |-> TRUE, val |-> acc, rest |-> Tail(t)]
    ELSE IF Head(t) = "\\"
         THEN IF Len(t) >= 2 /\ t[2] \in {"\"", "\\"}
              THEN json_loads_str(SubSeq(t, 3, Len(t)), Append(acc, t[2]))
              ELSE [ok |-> FALSE, val |-> << >>, rest |-> << >>]
    ELSE json_loads_str(Tail(t), Append(acc, Head(t)))

\* json.loads of what json_dumps writes; anything else is a ValueError.
json_loads(t) ==
    LET pre == <<"[", "{", "\"", "h", "t", "m", "l", "\"", ":", " ", "\"">>
    IN  IF t = <<"[", "]">> THEN [state |-> "found", val |-> << >>]
        ELSE IF StartsWith(t, pre)
             THEN LET b == json_loads_str(SubSeq(t, Len(pre) + 1, Len(t)), << >>)
                  IN  IF b.ok /\ b.rest = <<"}", "]">>
                      THEN [state |-> "found", val |-> <<[html |-> b.val]>>]
                      ELSE Malformed
             ELSE Malformed

\* The regex '<a data-menu="([^"]+)">' + re.escape(cgi.escape(text)) + '</a>'
RECURSIVE UpToQuote(_)
UpToQuote(t) ==
    IF t = << >> \/ Head(t) = "\"" THEN << >> ELSE <<Head(t)>> \o UpToQuote(Tail(t))
match_at(t, txt) ==
    IF StartsWith(t, AnchorPrefix)
    THEN LET rest == SubSeq(t, Len(AnchorPrefix) + 1, Len(t))
             v == UpToQuote(rest)
             after == SubSeq(rest, Len(v) + 1, Len(rest))
         IN  IF v # << >> /\ StartsWith(after, <<"\"", ">">> \o escape(txt) \o Ref_closer)
             THEN [ok |-> TRUE, group |-> v]
             ELSE [ok |-> FALSE, group |-> << >>]
    ELSE [ok |-> FALSE, group |-> << >>]
RECURSIVE re_search(_, _)
re_search(t, txt) ==
    IF t = << >> THEN [ok |-> FALSE, group |-> << >>]
    ELSE IF match_at(t, txt).ok THEN match_at(t, txt)
    ELSE re_search(Tail(t), txt)

\* menu_on(haystack, text, ...) up to json.loads
menu_on(haystack, txt) ==
    LET match == re_search(haystack, txt)
    IN  IF match.ok THEN json_loads(attr_decoded(match.group)) ELSE NoMatch

RECURSIVE WithoutBreaks(_)
WithoutBreaks(t) ==
    IF t = << >> THEN << >>
    ELSE IF IsBreak(Head(t)) THEN WithoutBreaks(Tail(t))
    ELSE <<Head(t)>> \o WithoutBreaks(Tail(t))

RefIntervals(n) == {iv \in ValidIntervals(n) : iv.cls = "Ref"}

\* A page with one Ref on it and every menu, and pages of every text with a
\* Ref and at most one more interval around, inside, before or behind it.
InitMenu ==
    /\ \/ /\ menu \in Menus
          /\ text = <<"a">>
          /\ intervals = <<[cls |-> "Ref", start |-> 0, end |-> 1]>>
       \/ /\ menu = SimpleMenu
          /\ text \in SeqsUpTo(MenuTextChars, MaxLen)
          /\ \E ref \in RefIntervals(Len(text)) :
                 \/ intervals = <<ref>>
                 \/ \E iv \in ValidIntervals(Len(text)) :
                        intervals \in {<<ref, iv>>, <<iv, ref>>}
    /\ rendered = << >>
    /\ found = Unsearched
    /\ LinesStart
    /\ NonMenuIdle

\* html_lines with the openers and closers written out.
HtmlLinesOfMenu ==
    /\ pc = "balanced"
    /\ lines' = html_lines(balanced, err, text)
    /\ rendered' = [k \in 1..Len(lines') |-> render(lines'[k], menu)]
    /\ pc' = IF err = "none" THEN "done" ELSE "failed"
    /\ UNCHANGED <<text, intervals, tags, balanced, err, menu, found>>
    /\ UNCHANGED nonMenuVars

\* menu_on(page, text of the first Ref, ...)
MenuOn ==
    /\ pc = "done"
    /\ found = Unsearched
    /\ \E i \in RefIds :
           /\ \A j \in RefIds : i <= j
           /\ found' = menu_on(join(rendered),
                  WithoutBreaks(decoded_slice(text, intervals[i].start, intervals[i].end)))
    /\ UNCHANGED <<linesVars, menu, rendered>>
    /\ UNCHANGED nonMenuVars

NextMenu ==
    \/ TagBoundaries
    \/ LineBoundaries
    \/ SortTags
    \/ RemoveOverlappingRefs
    \/ BalancedTags
    \/ HtmlLinesOfMenu
    \/ MenuOn

SpecMenu == InitMenu /\ [][NextMenu]_vars

Entities ==
    {<<"&", "a", "m", "p", ";">>, <<"&", "l", "t", ";">>, <<"&", "g", "t", ";">>,
     <<"&", "q", "u", "o", "t", ";">>}

\* The value of the data-menu attribute is properly escaped and decodes to m.
AttrSound(v, m) ==
    /\ \A k \in 1..Len(v) :
           /\ v[k] \notin {"\"", "<", ">"}
           /\ v[k] = "&" => \E ent \in Entities : StartsWith(SubSeq(v, k, Len(v)), ent)
    /\ json_loads(attr_decoded(v)) = [state |-> "found", val |-> m]

\* Every <a data-menu=" of the page is followed by a sound attribute value
\* and by ">.
OpenersSound ==
    LET page == join(rendered)
    IN  \A k \in 1..Len(page) :
            StartsWith(SubSeq(page, k, Len(page)), AnchorPrefix) =>
                LET rest == SubSeq(page, k + Len(AnchorPrefix), Len(page))
                    v == UpToQuote(rest)
                IN  /\ AttrSound(v, menu)
                    /\ StartsWith(SubSeq(rest, Len(v) + 1, Len(rest)), <<"\"", ">">>)

UnsplitRefs == {i \in RefIds : Cardinality(Boundaries(balanced, PayloadOf(i))) = 2}
OpenersOf(items, i) == {k \in 1..Len(items) : items[k] = opener(PayloadOf(i))}
NextAnchorClose(items, k) ==
    CHOOSE c \in (k + 1)..Len(items) :
        /\ items[c].k = "close" /\ items[c].p.kind = "Ref"
        /\ \A d \in (k + 1)..(c - 1) : ~(items[d].k = "close" /\ items[d].p.kind = "Ref")

\* The Ref i is rendered as one element whose text is wrapped.
OneAnchorWrapping(i, wrapped) ==
    LET items == join(lines)
        opens == OpenersOf(items, i)
    IN  /\ Cardinality(opens) = 1
        /\ \A k \in opens :
               /\ \E c \in (k + 1)..Len(items) : items[c].k = "close" /\ items[c].p.kind = "Ref"
               /\ StripTags(SubSeq(items, k + 1, NextAnchorClose(items, k) - 1)) = wrapped
        /\ rendered = [k \in 1..Len(lines) |-> render(lines[k], menu)]

RefText(i) == decoded_slice(text, intervals[i].start, intervals[i].end)

\* C18, as claimed: on the rendered page every Ref opener is
\* <a data-menu="..."> with no raw '"', '<', '>' or bare '&' in the value,
\* which decodes (entities replaced in the order &quot; &lt; &gt; &amp; then
\* json.loads) to the menu, also as menu_on reads it; and a Ref the balancer
\* did not split is one <a ...>text</a> element whose text is exactly the
\* escaped source text of its interval.
C18_AnchorWrapsIntervalText ==
    pc = "done" =>
        /\ OpenersSound
        /\ found.state # "unsearched" => found \in {NoMatch, [state |-> "found", val |-> menu]}
        /\ \A i \in UnsplitRefs : OneAnchorWrapping(i, escape(RefText(i)))

\* C18, amended: as above, but the text of the element is the escaped
\* source text of the interval without its line terminator characters,
\* which html_lines strips from every line.
C18_AnchorWrapsIntervalTextSansBreaks ==
    pc = "done" =>
        /\ OpenersSound
        /\ found.state # "unsearched" => found \in {NoMatch, [state |-> "found", val |-> menu]}
        /\ \A i \in UnsplitRefs : OneAnchorWrapping(i, escape(WithoutBreaks(RefText(i))))

C18_Witness ==
    /\ pc = "done"
    /\ found = [state |-> "found", val |-> menu]
    /\ menu = SimpleMenu
    /\ \E i \in UnsplitRefs :
           /\ \E k \in 1..Len(RefText(i)) : RefText(i)[k] = "\n"
           /\ \E k \in 1..Len(RefText(i)) : RefText(i)[k] = "<"

\* ------------------------------------------------------------------------
\* Order of the boundaries within one offset
\* ------------------------------------------------------------------------

\* From boundary j on, no close boundary lies at an offset in opened, and
\* none at the offset of an open boundary before it.
RECURSIVE ClosesBeforeOpensFrom(_, _, _)
ClosesBeforeOpensFrom(ts, j, opened) ==
    IF j > Len(ts) THEN TRUE
    ELSE IF ts[j].is_start
    THEN ClosesBeforeOpensFrom(ts, j + 1, opened \cup {ts[j].point})
    ELSE ts[j].point \notin opened /\ ClosesBeforeOpensFrom(ts, j + 1, opened)

\* No open boundary is followed by a close boundary at the same offset.
ClosesBeforeOpens(ts) == ClosesBeforeOpensFrom(ts, 1, {})

\* C21: in the output of balanced_tags, at any single offset every close
\* boundary comes before every open boundary.
C21_ClosesBeforeOpensAtOffset ==
    pc = "balanced" => ClosesBeforeOpens(balanced)

\* The balancer reopened a tag at an offset where a further close arrives,
\* so its own output has an open followed by a close there.
C21_Witness ==
    /\ pc = "balanced"
    /\ err = "none"
    /\ ~ClosesBeforeOpens(balanced_tags_with_empties(tags).out)
    /\ \E i \in 1..Len(balanced) : \E j \in 1..Len(balanced) :
           /\ balanced[i].point = balanced[j].point
           /\ ~balanced[i].is_start
           /\ balanced[j].is_start
           /\ balanced[j].payload # Line

\* ------------------------------------------------------------------------
\* The order tags.sort(key=nesting_order) leaves
\* ------------------------------------------------------------------------

\* Line opens minus Line closes among the first n boundaries.
RECURSIVE LinesOpen(_, _)
LinesOpen(ts, n) ==
    IF n = 0 THEN 0
    ELSE LinesOpen(ts, n - 1)
         + (IF ts[n].payload # Line THEN 0 ELSE IF ts[n].is_start THEN 1 ELSE 0 - 1)

NestingSorted(ts) ==
    /\ \A i \in 1..Len(ts) : \A j \in 1..Len(ts) :
           i < j =>
               /\ ts[i].point <= ts[j].point
               /\ ts[i].point = ts[j].point =>
                      /\ ts[i].is_start => ts[j].is_start
                      /\ (ts[i].is_start /\ ts[j].is_start) =>
                             sort_order(ts[i].payload) <= sort_order(ts[j].payload)
                      /\ (~ts[i].is_start /\ ~ts[j].is_start) =>
                             sort_order(ts[i].payload) >= sort_order(ts[j].payload)
    /\ \A n \in 1..Len(ts) : LinesOpen(ts, n) \in {0, 1}

\* C22: after the sort the stream is ordered by offset; at one offset every
\* close precedes every open, the opens run Line, Ref, Region and the closes
\* Region, Ref, Line; and each payload's open precedes its close.
C22_SortedByNestingOrder ==
    pc = "sorted" =>
        /\ NestingSorted(tags)
        /\ \A i \in TagIds :
               /\ Positions(tags, OpenOf(i)) # {}
               /\ Positions(tags, CloseOf(i)) # {}
               /\ PosIn(tags, OpenOf(i)) < PosIn(tags, CloseOf(i))
        /\ LinesOpen(tags, Len(tags)) = 0

\* A Region, a Ref and a line end at one offset where the next line starts,
\* and the Region was handed in after the Ref.
C22_Witness ==
    /\ pc = "sorted"
    /\ \E i \in TagIds : \E j \in TagIds :
           /\ i < j
           /\ intervals[i].cls = "Ref"
           /\ intervals[j].cls = "Region"
           /\ intervals[i].end = intervals[j].end
           /\ Positions(tags, Tag(intervals[i].end, FALSE, Line)) # {}
           /\ Positions(tags, Tag(intervals[i].end, TRUE, Line)) # {}
           /\ PosIn(tags, CloseOf(j)) < PosIn(tags, CloseOf(i))

\* ------------------------------------------------------------------------
\* What remove_overlapping_refs leaves of the list
\* ------------------------------------------------------------------------

\* The Refs none of whose boundaries is in ts.
DroppedRefs(ts) == RefIds \ KeptRefs(ts)

\* ts without every boundary of the Refs in D, the rest in place.
WithoutRefs(ts, D) ==
    SelectSeq(ts, LAMBDA t : ~(t.payload.kind = "Ref" /\ t.payload.id \in D))

\* C23: the list after the in-place compaction is the list before it with
\* exactly the boundaries of the dropped Refs removed: every Line and Region
\* boundary stays, and what remains keeps its value and relative order.
C23_OnlyDroppedRefsRemoved ==
    pc = "filtered" =>
        LET S == SortedTags
            D == DroppedRefs(tags)
        IN  /\ tags = WithoutRefs(S, D)
            /\ \A i \in 1..Len(S) :
                   S[i].payload.kind # "Ref" =>
                       Cardinality(Positions(tags, S[i])) = Cardinality(Positions(S, S[i]))

\* A Ref was dropped and boundaries behind it were moved down over its
\* slots.
C23_Witness ==
    /\ pc = "filtered"
    /\ DroppedRefs(tags) # {}
    /\ LET S == SortedTags
       IN  /\ Len(tags) = Len(S) - 2
           /\ tags # SubSeq(S, 1, Len(tags))
           /\ \E i \in 1..Len(tags) :
                  /\ tags[i].payload = Line
                  /\ tags[i] # S[i]

\* ------------------------------------------------------------------------
\* A Ref with Regions inside it
\* ------------------------------------------------------------------------

\* Interval j lies within interval i; the ends may coincide.
Inside(j, i) ==
    /\ intervals[i].start <= intervals[j].start
    /\ intervals[j].end <= intervals[i].end

\* No line starts or ends strictly between the ends of interval i.
OnOneLine(i) ==
    LET lb == line_boundaries(text)
    IN  ~\E n \in 1..Len(lb) :
            intervals[i].start < lb[n].point /\ lb[n].point < intervals[i].end

\* The Refs on one line that nothing overlaps except Regions inside them,
\* and that have such a Region.
RefsAroundRegions ==
    {i \in RefIds :
        /\ OnOneLine(i)
        /\ \A k \in TagIds \ {i} :
               Overlap(k, i) => intervals[k].cls = "Region" /\ Inside(k, i)
        /\ \E k \in TagIds \ {i} : Overlap(k, i)}

\* The positions in rendered line l of the opening tags of payload p.
OpenersIn(l, p) == {n \in 1..Len(l) : l[n] = opener(p)}

\* The positions in l after o of a closing tag of kind.
ClosersAfter(l, o, kind) ==
    {n \in (o + 1)..Len(l) : l[n].k = "close" /\ l[n].p.kind = kind}

\* C24: a Ref on one line is not split by the Regions inside it, whether or
\* not they share its start or end: the stream has one open and one close
\* of the Ref with every boundary of those Regions between them, and one
\* rendered line has one <a>...</a> for it, with their <span>s opened and
\* closed inside it.
C24_RefAroundRegionUnsplit ==
    /\ pc = "balanced" =>
           \A i \in RefsAroundRegions :
               /\ Boundaries(balanced, PayloadOf(i))
                      = {PosIn(balanced, OpenOf(i)), PosIn(balanced, CloseOf(i))}
               /\ Cardinality(Boundaries(balanced, PayloadOf(i))) = 2
               /\ \A j \in TagIds \ {i} :
                      Overlap(j, i) =>
                          /\ Boundaries(balanced, PayloadOf(j)) # {}
                          /\ \A n \in Boundaries(balanced, PayloadOf(j)) :
                                 /\ PosIn(balanced, OpenOf(i)) < n
                                 /\ n < PosIn(balanced, CloseOf(i))
    /\ pc = "done" =>
           \A i \in RefsAroundRegions :
               \E m \in 1..Len(lines) :
                   LET l == lines[m]
                   IN  /\ \A m2 \in 1..Len(lines) :
                              m2 # m => OpenersIn(lines[m2], PayloadOf(i)) = {}
                       /\ Cardinality(OpenersIn(l, PayloadOf(i))) = 1
                       /\ \A o \in OpenersIn(l, PayloadOf(i)) :
                              /\ ClosersAfter(l, o, "Ref") # {}
                              /\ \E c \in ClosersAfter(l, o, "Ref") :
                                     /\ \A d \in ClosersAfter(l, o, "Ref") : c <= d
                                     /\ ItemsBalanced(SubSeq(l, o + 1, c - 1), << >>)
                                     /\ \A j \in TagIds \ {i} :
                                            Overlap(j, i) =>
                                                /\ OpenersIn(l, PayloadOf(j)) # {}
                                                /\ \A n \in OpenersIn(l, PayloadOf(j)) :
                                                       o < n /\ n < c
                                                /\ \A m2 \in 1..Len(lines) :
                                                       m2 # m =>
                                                           OpenersIn(lines[m2], PayloadOf(j)) = {}

\* A Region with the very interval of a Ref, handed in before the Ref, has
\* been rendered.
C24_Witness ==
    /\ pc = "done"
    /\ \E i \in RefsAroundRegions : \E j \in TagIds :
           /\ j < i
           /\ intervals[j].cls = "Region"
           /\ intervals[j].start = intervals[i].start
           /\ intervals[j].end = intervals[i].end
           /\ intervals[i].end - intervals[i].start >= 2

\* ------------------------------------------------------------------------
\* The empty file
\* ------------------------------------------------------------------------

\* C25: for the empty text with no plugin intervals the pipeline completes
\* without error and yields no line.
C25_EmptyFileYieldsNoLines ==
    (text = << >> /\ intervals = << >>) =>
        /\ err = "none"
        /\ pc # "failed"
        /\ pc = "done" => lines = << >>

\* ------------------------------------------------------------------------
\* build_sections
\* ------------------------------------------------------------------------

MaxGroups == 1

Plugins == {1, 2}
Importances == {1, 2}
Titles == {"a", "b"}
ItemLists == {<<"x">>, <<"y">>}

\* What links() yields: (importance, section, items) triples.
Groups == [importance : Importances, section : Titles, items : ItemLists]

\* chain(*(htmlifier.links() for htmlifier in htmlifiers))
RECURSIVE chain(_)
chain(ls) == IF ls = << >> THEN << >> ELSE Head(ls) \o chain(Tail(ls))

\* Variant: the title takes no part in the key.
section_key_importance_only(section) == <<section.importance, 0>>

\* key = lambda section: (section[0], section[1])
section_key(section) == <<section.importance, Ord(section.section)>>

SectionKeyLess(a, b) == a[1] < b[1] \/ (a[1] = b[1] /\ a[2] < b[2])

\* sorted(links, key=...) is stable: an element goes after every element
\* whose key is not greater than its own.
RECURSIVE sorted_links(_)
sorted_links(s) ==
    IF s = << >> THEN << >>
    ELSE LET rest == sorted_links(Front(s))
             x == Last(s)
             n == Cardinality({i \in 1..Len(rest) :
                                  ~SectionKeyLess(section_key(x), section_key(rest[i]))})
         IN  SubSeq(rest, 1, n) \o <<x>> \o SubSeq(rest, n + 1, Len(rest))

\* [(section, list(items)) for importance, section, items in links]
without_importance(ls) == [i \in 1..Len(ls) |-> <<ls[i].section, ls[i].items>>]

InitSections ==
    /\ plugin_links \in [1..Cardinality(Plugins) -> SeqsUpTo(Groups, MaxGroups)]
    /\ links = << >>
    /\ sections = << >>
    /\ secpc = "chain"
    /\ NonSectionsIdle

\* links = chain(...)
ChainLinks ==
    /\ secpc = "chain"
    /\ links' = chain(plugin_links)
    /\ secpc' = "sort"
    /\ UNCHANGED <<plugin_links, sections>>
    /\ UNCHANGED nonSectionVars

\* links = sorted(links, key=...)
SortLinks ==
    /\ secpc = "sort"
    /\ links' = sorted_links(links)
    /\ secpc' = "return"
    /\ UNCHANGED <<plugin_links, sections>>
    /\ UNCHANGED nonSectionVars

\* return [...]
ReturnSections ==
    /\ secpc = "return"
    /\ sections' = without_importance(links)
    /\ secpc' = "returned"
    /\ UNCHANGED <<plugin_links, links>>
    /\ UNCHANGED nonSectionVars

NextSections ==
    \/ ChainLinks
    \/ SortLinks
    \/ ReturnSections

SpecSections == InitSections /\ [][NextSections]_vars

\* The groups handed in that have title t, in the order of the chain.
GroupsTitled(t) == SelectSeq(chain(plugin_links), LAMBDA g : g.section = t)

\* The entries of the result that have title t.
EntriesTitled(t) == {i \in 1..Len(sections) : sections[i][1] = t}

\* The result runs in ascending (importance, title) order.
SectionsAscending ==
    \A i \in 1..Len(links) : \A j \in 1..Len(links) :
        i < j => ~SectionKeyLess(<<links[j].importance, Ord(links[j].section)>>,
                                 <<links[i].importance, Ord(links[i].section)>>)

\* C26 as stated: the result is in (importance, title) order and each title
\* appears once, carrying all the items of every group that has that title.
C26_SectionsMergedByTitle ==
    secpc = "returned" =>
        /\ SectionsAscending
        /\ \A t \in Titles :
               /\ Cardinality(EntriesTitled(t)) <= 1
               /\ GroupsTitled(t) # << >> =>
                      \E i \in EntriesTitled(t) :
                          sections[i][2] = chain([k \in 1..Len(GroupsTitled(t)) |->
                                                     GroupsTitled(t)[k].items])

\* C26 amended: the result has one (title, items) entry for each group
\* handed in, in ascending (importance, title) order, groups of equal
\* importance and title in the order the htmlifiers yielded them; two groups
\* with one title stay two entries.
C26_OneEntryPerGroupInKeyOrder ==
    secpc = "returned" =>
        /\ SectionsAscending
        /\ Len(sections) = Len(chain(plugin_links))
        /\ sections = without_importance(links)
        /\ \A m \in Importances : \A t \in Titles :
               SelectSeq(links, LAMBDA g : g.importance = m /\ g.section = t)
                   = SelectSeq(chain(plugin_links),
                               LAMBDA g : g.importance = m /\ g.section = t)

\* Two htmlifiers contributed a group with the same title, and the sort put
\* the second htmlifier's group first.
C26_Witness ==
    /\ secpc = "returned"
    /\ Len(sections) = 2
    /\ sections[1][1] = sections[2][1]
    /\ sections[1][2] # sections[2][2]
    /\ plugin_links[1] # << >>
    /\ plugin_links[2] # << >>
    /\ sections[1] = <<plugin_links[2][1].section, plugin_links[2][1].items>>
    /\ plugin_links[2][1].importance < plugin_links[1][1].importance

\* ------------------------------------------------------------------------
\* Two runs of index_files over one source tree
\* ------------------------------------------------------------------------

\* The first run starts on an empty index, with nothing listed yet.
InitReindex ==
    /\ fs \in Trees(MaxNodes)
    /\ ignore_patterns \in SubsetsUpTo(NameGlobs, MaxGlobs)
    /\ ignore_paths \in SubsetsUpTo(PathGlobs, MaxGlobs)
    /\ walk_stack = << << >> >>
    /\ root = << >>
    /\ files = << >>
    /\ folders = << >>
    /\ indexed_files = << >>
    /\ files_table = << >>
    /\ trg_index = << >>
    /\ listings = << >>
    /\ non_text = {}
    /\ ipc = "walk"
    /\ run = 1
    /\ listed = {}
    /\ first_table = << >>
    /\ LinesIdle /\ SlicesIdle /\ BuildIdle /\ WorkerIdle /\ MenuIdle /\ SectionsIdle

\* for root, folders, files in os.walk(...): os.walk lists the next folder.
\* The first run takes whatever order os.listdir gives and the order is
\* kept; the second run is given the same order for the same folder.
ListFolder ==
    /\ ipc = "walk"
    /\ walk_stack # << >>
    /\ root' = Head(walk_stack)
    /\ walk_stack' = Tail(walk_stack)
    /\ IF run = 1
       THEN /\ files' \in Orderings(Entries(Head(walk_stack), FALSE))
            /\ folders' \in Orderings(Entries(Head(walk_stack), TRUE))
            /\ listed' = listed \cup {[folder |-> Head(walk_stack),
                                       files |-> files', folders |-> folders']}
       ELSE /\ \E l \in listed :
                   /\ l.folder = Head(walk_stack)
                   /\ files' = l.files
                   /\ folders' = l.folders
            /\ UNCHANGED listed
    /\ indexed_files' = << >>
    /\ ipc' = "files"
    /\ UNCHANGED <<fs, ignore_patterns, ignore_paths, files_table, trg_index, listings,
                   non_text, run, first_table>>
    /\ UNCHANGED <<linesVars, sliceVars, buildVars, workerVars, menuVars, sectionVars>>

\* for f in files: one pass through the loop body.  What dxr.mime.is_text
\* says of a file depends on the file alone, so the second run gets the
\* answer the first run got.
IndexListedFile ==
    /\ ipc = "files"
    /\ files # << >>
    /\ LET f == Head(files)
           path == os_path_join(rel_path(root), f)
           id == lastrowid(files_table)
       IN  IF \/ \E e \in ignore_patterns : fnmatchcase(f, e)
              \/ \E e \in ignore_paths : fnmatchcase(<<"/">> \o path, e)
           THEN UNCHANGED <<files_table, trg_index, indexed_files, non_text>>
           ELSE \E is_text \in (IF run = 1 THEN BOOLEAN ELSE {path \notin non_text}) :
                    IF ~is_text
                    THEN /\ non_text' = non_text \cup {path}
                         /\ UNCHANGED <<files_table, trg_index, indexed_files>>
                    ELSE /\ files_table' = Append(files_table, [id |-> id, path |-> path])
                         /\ trg_index' = Append(trg_index, [id |-> id])
                         /\ indexed_files' = Append(indexed_files, f)
                         /\ UNCHANGED non_text
    /\ files' = Tail(files)
    /\ UNCHANGED <<fs, ignore_patterns, ignore_paths, walk_stack, root, folders,
                   listings, ipc>>
    /\ UNCHANGED nonIndexVars

\* The same tree is indexed again, into a fresh, empty index.
Reindex ==
    /\ ipc = "done"
    /\ run = 1
    /\ run' = 2
    /\ first_table' = files_table
    /\ walk_stack' = << << >> >>
    /\ root' = << >>
    /\ files' = << >>
    /\ folders' = << >>
    /\ indexed_files' = << >>
    /\ files_table' = << >>
    /\ trg_index' = << >>
    /\ listings' = << >>
    /\ ipc' = "walk"
    /\ UNCHANGED <<fs, ignore_patterns, ignore_paths, non_text, listed>>
    /\ UNCHANGED <<linesVars, sliceVars, buildVars, workerVars, menuVars, sectionVars>>

NextReindex ==
    \/ ListFolder
    \/ IndexListedFile
    \/ BuildFolder
    \/ Commit
    \/ Reindex

SpecReindex == InitReindex /\ [][NextReindex]_vars

\* The names of s are in strictly ascending order.
NamesAscending(s) == \A i \in 1..Len(s) : \A j \in 1..Len(s) : i < j => StrLess(s[i], s[j])

\* The folders still to be walked that lie in folder dir, in walk order.
PendingIn(dir) ==
    LET sub == SelectSeq(walk_stack, LAMBDA p : p # << >> /\ Front(p) = dir)
    IN  [i \in 1..Len(sub) |-> Last(sub[i])]

InitRanges ==
    /\ sl_a \in 1..MaxFirstId
    /\ sl_b \in (sl_a - 1)..MaxFileId
    /\ slice_size \in 1..MaxSliceSize
    /\ this_min = sl_a
    /\ this_max = Unbound
    /\ yielded = << >>
    /\ spc = "loop"
    /\ NonSlicesIdle

SpecRanges == InitRanges /\ [][NextSlices]_vars

\* C28: the generator yields finitely many ranges: no more than there are
\* ids in [a, b], and no more than one for the empty range b = a - 1.
C28_FinitelyManyRanges ==
    Len(yielded) <= (IF sl_b >= sl_a THEN sl_b - sl_a + 1 ELSE 1)

\* ------------------------------------------------------------------------
\* The stacks of the balancer and of the zero-width filter
\* ------------------------------------------------------------------------

\* The payload is on the stack.
IsOpen(opens, payload) == \E k \in 1..Len(opens) : opens[k] = payload

\* From boundary j on, with opens as it stands: every close finds its
\* payload in opens, closes is empty once the boundary is dealt with, and
\* opens is empty when the stream ends.
RECURSIVE BalancerSafe(_, _, _)
BalancerSafe(ts, j, opens) ==
    IF j > Len(ts) THEN opens = << >>
    ELSE IF ts[j].is_start THEN BalancerSafe(ts, j + 1, Append(opens, ts[j].payload))
    ELSE /\ IsOpen(opens, ts[j].payload)
         /\ LET c == close_intermediate(opens, << >>, << >>, ts[j].point, ts[j].payload)
                r == reopen_closed(Front(c.opens), c.closes, << >>, ts[j].point)
            IN  /\ c.err = "none"
                /\ r.closes = << >>
                /\ BalancerSafe(ts, j + 1, r.opens)

\* From boundary j on, with the filter's locals as they stand: the buffer
\* is not empty when a close arrives, and it is empty with depth 0 when the
\* stream ends.
RECURSIVE FilterSafe(_, _, _, _)
FilterSafe(ts, j, buffer, depth) ==
    IF j > Len(ts) THEN buffer = << >> /\ depth = 0
    ELSE IF ts[j].is_start THEN FilterSafe(ts, j + 1, Append(buffer, ts[j]), depth + 1)
    ELSE /\ buffer # << >>
         /\ IF depth - 1 = 0
            THEN FilterSafe(ts, j + 1, << >>, 0)
            ELSE FilterSafe(ts, j + 1,
                            IF is_zero_width(Last(buffer), ts[j])
                            THEN Front(buffer) ELSE Append(buffer, ts[j]),
                            depth - 1)

\* opens as it is when boundary j of ts arrives.
OpensBefore(ts, j) == balanced_tags_with_empties(SubSeq(ts, 1, j - 1)).opens

\* C29: on every sorted stream of valid intervals and Line markers neither
\* generator reads the top of an empty list.  In the balancer each payload
\* being closed is in opens, closes is empty once a boundary is dealt with
\* and opens is empty when the stream ends; in the filter the buffer is not
\* empty when a close arrives, and it is empty with depth 0 at the end.
C29_StacksNeverReadEmpty ==
    pc = "balanced" =>
        /\ err = "none"
        /\ BalancerSafe(tags, 1, << >>)
        /\ FilterSafe(balanced_tags_with_empties(tags).out, 1, << >>, 0)

\* The balancer had to close and reopen tags, and the filter had pairs to
\* drop.
C29_Witness ==
    /\ pc = "balanced"
    /\ ~StreamNested(tags, << >>)
    /\ LET e == balanced_tags_with_empties(tags)
           w == without_empty_tags(e.out)
       IN  /\ Len(e.out) > Len(tags)
           /\ Len(w.out) < Len(e.out)
           /\ \E j \in 1..Len(tags) :
                  /\ ~tags[j].is_start
                  /\ Len(OpensBefore(tags, j)) >= 3
                  /\ Last(OpensBefore(tags, j)) # tags[j].payload

============================================================================
